---------------------------- MODULE Spec2Model ----------------------------
(***************************************************************************)
(* The self-correcting investigation pipeline of the market anomaly agent: *)
(* the LangGraph controller of src/src/agents/anomaly_investigation_v5.py  *)
(* (generate_queries -> search -> evaluate -> increment | report), run as  *)
(* the background task of src/api.py, which records the outcome in the     *)
(* in-memory investigations_store.                                         *)
(*                                                                         *)
(* A Python str is modelled as a sequence of one-character strings; the    *)
(* two bullet glyphs the code tests for (U+2022, U+25AA) are the tokens    *)
(* "BULLET" and "SQUARE".  A float in [0,1] (a confidence) is modelled in  *)
(* hundredths: 0.7 is 70.                                                  *)
(***************************************************************************)
EXTENDS Integers, Sequences, FiniteSets, TLC

(***************************************************************************)
(* Python string primitives used by the query normalisation.               *)
(***************************************************************************)
Whitespace == {" ", "\t", "\n"}

Digits == {"0", "1", "2", "3", "4", "5", "6", "7", "8", "9"}

\* str.isdigit() on one character
IsDigit(c) == c \in Digits

\* F applied to the value of v: v is evaluated once, however often F reads it
WithValue(v, F(_)) == CHOOSE r \in {F(x) : x \in {v}} : TRUE

\* str.strip(chars): drop the leading and trailing characters that are in cs
StripValue(s, cs) ==
    IF \A i \in 1..Len(s) : s[i] \in cs
    THEN << >>
    ELSE LET a == CHOOSE i \in 1..Len(s) :
                      s[i] \notin cs /\ \A j \in 1..(i - 1) : s[j] \in cs
             b == CHOOSE i \in 1..Len(s) :
                      s[i] \notin cs /\ \A j \in (i + 1)..Len(s) : s[j] \in cs
         IN  SubSeq(s, a, b)

StripSet(str, cs) == WithValue(str, LAMBDA s : StripValue(s, cs))

\* str.strip()
Strip(s) == StripSet(s, Whitespace)

\* str.replace('**', ''): non-overlapping pairs, scanned left to right
RECURSIVE ReplaceDoubleStarValue(_)
ReplaceDoubleStarValue(s) ==
    IF \A i \in 1..Len(s) : s[i] # "*" THEN s
    ELSE IF Len(s) < 2 THEN s
    ELSE IF s[1] = "*" /\ s[2] = "*"
         THEN ReplaceDoubleStarValue(SubSeq(s, 3, Len(s)))
         ELSE <<s[1]>> \o ReplaceDoubleStarValue(Tail(s))

ReplaceDoubleStar(str) == WithValue(str, LAMBDA s : ReplaceDoubleStarValue(s))

\* str.replace('*', '')
IsNotStar(c) == c # "*"

ReplaceStar(s) == SelectSeq(s, IsNotStar)

\* '.' in query[:5]
DotInPrefix(str) == \E s \in {str} : \E i \in 1..Len(s) : i <= 5 /\ s[i] = "."

\* query.split('.', 1)[1]   (called only when the string holds a '.')
AfterFirstDotValue(s) ==
    LET k == CHOOSE i \in 1..Len(s) :
                 s[i] = "." /\ \A j \in 1..(i - 1) : s[j] # "."
    IN  SubSeq(s, k + 1, Len(s))

AfterFirstDot(str) == WithValue(str, LAMBDA s : AfterFirstDotValue(s))

\* query.rsplit(' ', 1)[0]
RSplitSpaceValue(s) ==
    IF \A i \in 1..Len(s) : s[i] # " " THEN s
    ELSE LET k == CHOOSE i \in 1..Len(s) :
                      s[i] = " " /\ \A j \in (i + 1)..Len(s) : s[j] # " "
         IN  SubSeq(s, 1, k - 1)

RSplitSpace(str) == WithValue(str, LAMBDA s : RSplitSpaceValue(s))

\* the enumeration markers of line 55
LeadingMarkers == {"-", "BULLET", "SQUARE"}

\* the lower length limit of line 69 (exclusive) and the default max_length
MinQueryLen == 15

MaxQueryLen == 250

(***************************************************************************)
(* validate_and_truncate_queries, one query of the loop body: the empty    *)
(* sequence when the query is dropped, the one-element sequence otherwise. *)
(***************************************************************************)
\* query.replace('**', '').replace('*', '').strip()
RemoveMarkdown(query) == Strip(ReplaceStar(ReplaceDoubleStar(query)))

\* the numbering removal: up to the first '.' when one is among the first
\* five characters, else the first character
RemoveNumberingValue(q) ==
    IF DotInPrefix(q) THEN Strip(AfterFirstDot(q)) ELSE Strip(Tail(q))

\* lines 54-59: the removal applies to a leading digit or marker only
RemoveLeadingValue(q) ==
    IF q # << >> /\ (IsDigit(q[1]) \/ q[1] \in LeadingMarkers)
    THEN RemoveNumberingValue(q)
    ELSE q

RemoveLeading(query) == WithValue(query, LAMBDA q : RemoveLeadingValue(q))

\* query.strip('"').strip("'").strip()
RemoveQuotes(query) == Strip(StripSet(StripSet(query, {"\""}), {"'"}))

\* query[:max_length].rsplit(' ', 1)[0] when the query is too long
TruncateValue(q, max_length) ==
    IF Len(q) > max_length THEN RSplitSpace(SubSeq(q, 1, max_length)) ELSE q

Truncate(query, max_length) ==
    WithValue(query, LAMBDA q : TruncateValue(q, max_length))

KeepValid_AcceptsFifteen(query, max_length) ==
    WithValue(query, LAMBDA q :
        IF MinQueryLen <= Len(q) /\ Len(q) <= max_length THEN <<q>> ELSE << >>)

\* 15 < len(query) <= max_length: the query is appended, else dropped
KeepValid(query, max_length) ==
    WithValue(query, LAMBDA q :
        IF MinQueryLen < Len(q) /\ Len(q) <= max_length THEN <<q>> ELSE << >>)

\* the body of the loop over the queries
ValidateOne(query, max_length) ==
    KeepValid(Truncate(RemoveQuotes(RemoveLeading(RemoveMarkdown(query))),
                       max_length),
              max_length)

RECURSIVE validate_and_truncate_queries(_, _)
validate_and_truncate_queries(queries, max_length) ==
    WithValue(queries, LAMBDA qs :
        IF qs = << >> THEN << >>
        ELSE ValidateOne(Head(qs), max_length)
                 \o validate_and_truncate_queries(Tail(qs), max_length))

(***************************************************************************)
(* Inputs.  The anomaly under investigation is reduced to its ticker, the  *)
(* only field the controller's own code reads.                             *)
(***************************************************************************)
Tickers == {<<"M", "S", "F", "T">>}

\* s repeated n times
Rep(s, n) == [i \in 1..(n * Len(s)) |-> s[((i - 1) % Len(s)) + 1]]

\* Raw query strings as a parser of a generative response hands them over:
\* non-empty, without surrounding whitespace, otherwise arbitrary.
QNumberedBold == <<"1", ".", " ", "*", "*", "M", "S", "F", "T", " ", "e", "a", "r", "n", "i", "n", "g", "s", " ", "m", "i", "s", "s", " ", "Q", "4", "*", "*">>

QShort == <<"M", "S", "F", "T", " ", "n", "e", "w", "s">>

QFifteen == <<"M", "S", "F", "T", " ", "s", "t", "o", "c", "k", " ", "n", "e", "w", "s">>

QSixteen == <<"M", "S", "F", "T", " ", "s", "t", "o", "c", "k", " ", "d", "r", "o", "p", "s">>

QQuotedDash == <<"\"", "-", " ", "M", "S", "F", "T", " ", "S", "E", "C", " ", "f", "i", "l", "i", "n", "g", " ", "N", "o", "v", "e", "m", "b", "e", "r", "\"">>

\* 26 words of 9 letters and a space: cut at the word boundary before 250
QLongWords == Rep(<<"a", "b", "c", "d", "e", "f", "g", "h", "i", " ">>, 25) \o <<"a", "b", "c", "d", "e", "f", "g", "h", "i">>

\* 260 characters without a space: cut at exactly 250
QLongNoSpace == Rep(<<"x">>, 260)

\* a long query whose only space is near its start: the cut leaves 2 characters
QLongLateSpace == <<"a", "b", " ">> \o Rep(<<"x">>, 260)

\* the lists a strategy may hand to the normalisation (at most 3 entries:
\* _parse_cot_response and optimize_queries both return [:3])
LlmQueryLists ==
    { << >>,
      <<QNumberedBold>>,
      <<QNumberedBold, QSixteen, QQuotedDash>>,
      <<QShort, QFifteen, QLongLateSpace>>,
      <<QLongWords, QLongNoSpace, QFifteen>> }

\* responses of an expert persona: the lines of the response, or a failed call
ExpertResponses ==
    { [ok |-> FALSE, lines |-> << >>],
      [ok |-> TRUE,  lines |-> <<<<"1", ".", " ", "2", "0", "2", "5", " ", "M", "S", "F", "T", " ", "e", "a", "r", "n", "i", "n", "g", "s", " ", "g", "u", "i", "d", "a", "n", "c", "e", " ", "c", "u", "t">>,
                                 <<"2", ".", " ", "\"", "M", "S", "F", "T", " ", "g", "u", "i", "d", "a", "n", "c", "e", " ", "c", "u", "t", " ", "N", "o", "v", "e", "m", "b", "e", "r", " ", "2", "0", "2", "5", "\"">>,
                                 <<"3", ".", " ", "M", "S", "F", "T", " ", "a", "n", "a", "l", "y", "s", "t", " ", "d", "o", "w", "n", "g", "r", "a", "d", "e">>>>],
      [ok |-> TRUE,  lines |-> <<<<"H", "e", "r", "e", " ", "a", "r", "e", " ", "t", "h", "e", " ", "q", "u", "e", "r", "i", "e", "s", ":">>,
                                 <<"-", " ", "*", "*", "M", "S", "F", "T", " ", "S", "E", "C", " ", "p", "r", "o", "b", "e", " ", "N", "o", "v", "e", "m", "b", "e", "r", " ", "2", "0", "2", "5", "*", "*">>,
                                 <<"2", ".", " ", "M", "S", "F", "T">>>>] }

(***************************************************************************)
(* ExpertRolePrompts.generate_expert_queries: parse the response lines,    *)
(* pad with the persona fallbacks, return the first three; the fallback    *)
(* list when the call raises.                                              *)
(***************************************************************************)
ExpertBulletPrefix == <<"U201A", "U00C4", "U00A2">>

StartsWith(s, p) == Len(s) >= Len(p) /\ SubSeq(s, 1, Len(p)) = p

\* lines 153-174: a line that starts with a digit, '-' or the bullet text
\* has its numbering removed, then markdown and quotes, and is truncated
ExpertParseValue(line) ==
    IF line = << >> \/ Len(line) < 10 THEN << >>
    ELSE IF IsDigit(line[1]) \/ line[1] = "-" \/ StartsWith(line, ExpertBulletPrefix)
    THEN KeepValid(Truncate(RemoveQuotes(RemoveMarkdown(RemoveNumberingValue(line))),
                            MaxQueryLen),
                   MaxQueryLen)
    ELSE << >>

ExpertParseLine(raw) == WithValue(Strip(raw), LAMBDA line : ExpertParseValue(line))

RECURSIVE ExpertParseLines(_)
ExpertParseLines(lines) ==
    WithValue(lines, LAMBDA ls :
        IF ls = << >> THEN << >>
        ELSE ExpertParseLine(Head(ls)) \o ExpertParseLines(Tail(ls)))

\* queries[:3]
FirstThree(queries) ==
    WithValue(queries, LAMBDA qs : SubSeq(qs, 1, IF Len(qs) < 3 THEN Len(qs) ELSE 3))

\* lines 177-186: fewer than three parsed queries are extended by the defaults
ExpertExtend(ticker, queries) ==
    WithValue(queries, LAMBDA qs :
        IF Len(qs) < 3
        THEN qs \o << ticker \o <<" ", "e", "a", "r", "n", "i", "n", "g", "s", " ", "Q", "3", " ", "2", "0", "2", "5", " ", "m", "i", "s", "s">>,
                      ticker \o <<" ", "S", "E", "C", " ", "f", "i", "l", "i", "n", "g", " ", "N", "o", "v", "e", "m", "b", "e", "r", " ", "2", "0", "2", "5">>,
                      ticker \o <<" ", "a", "n", "a", "l", "y", "s", "t", " ", "d", "o", "w", "n", "g", "r", "a", "d", "e", " ", "N", "o", "v", "e", "m", "b", "e", "r", " ", "2", "0", "2", "5">> >>
        ELSE qs)

generate_expert_queries(ticker, response) ==
    IF response.ok
    THEN FirstThree(ExpertExtend(ticker, ExpertParseLines(response.lines)))
    ELSE << ticker \o <<" ", "e", "a", "r", "n", "i", "n", "g", "s", " ", "r", "e", "p", "o", "r", "t", " ", "Q", "3", " ", "2", "0", "2", "5">>,
            ticker \o <<" ", "S", "E", "C", " ", "f", "i", "l", "i", "n", "g", " ", "N", "o", "v", "e", "m", "b", "e", "r", " ", "2", "0", "2", "5">>,
            ticker \o <<" ", "a", "n", "a", "l", "y", "s", "t", " ", "r", "a", "t", "i", "n", "g", " ", "N", "o", "v", "e", "m", "b", "e", "r", " ", "2", "0", "2", "5">> >>

(***************************************************************************)
(* MetaPromptOptimizer.optimize_queries, after the response is parsed      *)
(* into the list `improved`.                                               *)
(***************************************************************************)
optimize_queries(original_queries, improved) ==
    IF improved # << >> THEN FirstThree(improved) ELSE original_queries

(***************************************************************************)
(* generate_advanced_queries.  `call` is what the strategy selected by the *)
(* iteration index did: it raised, or it returned its parsed output.       *)
(***************************************************************************)
StrategyOf_Alternates(iteration) ==
    IF iteration = 0 THEN "cot" ELSE IF iteration % 2 = 1 THEN "experts" ELSE "meta"

StrategyOf(iteration) ==
    IF iteration = 0 THEN "cot" ELSE IF iteration = 1 THEN "experts" ELSE "meta"

StrategyCalls(iteration) ==
    {[raised |-> TRUE, queries |-> << >>, earnings |-> [ok |-> FALSE, lines |-> << >>],
      legal |-> [ok |-> FALSE, lines |-> << >>]]}
    \cup
    IF iteration = 1
    THEN {[raised |-> FALSE, queries |-> << >>, earnings |-> e, legal |-> l] :
              e \in ExpertResponses, l \in ExpertResponses}
    ELSE {[raised |-> FALSE, queries |-> q, earnings |-> [ok |-> FALSE, lines |-> << >>],
           legal |-> [ok |-> FALSE, lines |-> << >>]] : q \in LlmQueryLists}

FallbackQueries(ticker) ==
    << ticker \o <<" ", "e", "a", "r", "n", "i", "n", "g", "s", " ", "r", "e", "p", "o", "r", "t", " ", "N", "o", "v", "e", "m", "b", "e", "r", " ", "2", "0", "2", "5">>,
       ticker \o <<" ", "S", "E", "C", " ", "f", "i", "l", "i", "n", "g", " ", "N", "o", "v", "e", "m", "b", "e", "r", " ", "2", "0", "2", "5">>,
       ticker \o <<" ", "a", "n", "a", "l", "y", "s", "t", " ", "r", "a", "t", "i", "n", "g", " ", "N", "o", "v", "e", "m", "b", "e", "r", " ", "2", "0", "2", "5">> >>

PadQuery(ticker) == ticker \o <<" ", "s", "t", "o", "c", "k", " ", "d", "r", "o", "p", " ", "N", "o", "v", "e", "m", "b", "e", "r", " ", "2", "0", "2", "5">>

RECURSIVE PadToThree(_, _)
PadToThree(queries, ticker) ==
    WithValue(queries, LAMBDA qs :
        IF Len(qs) < 3 THEN PadToThree(Append(qs, PadQuery(ticker)), ticker)
        ELSE qs)

\* lines 110-114: the first earnings query, the first legal query and the
\* second earnings query, each with its default
MultiExpertQueries(ticker, earnings_queries, legal_queries) ==
    WithValue(<<earnings_queries, legal_queries>>, LAMBDA r :
        << IF r[1] # << >> THEN r[1][1] ELSE ticker \o <<" ", "e", "a", "r", "n", "i", "n", "g", "s", " ", "Q", "4", " ", "2", "0", "2", "5">>,
           IF r[2] # << >> THEN r[2][1] ELSE ticker \o <<" ", "S", "E", "C", " ", "f", "i", "l", "i", "n", "g">>,
           IF Len(r[1]) > 1 THEN r[1][2] ELSE ticker \o <<" ", "g", "u", "i", "d", "a", "n", "c", "e">> >>)

StrategyQueries(state, call) ==
    IF StrategyOf(state.iteration) = "cot" THEN call.queries
    ELSE IF StrategyOf(state.iteration) = "experts"
    THEN MultiExpertQueries(state.anomaly,
                            generate_expert_queries(state.anomaly, call.earnings),
                            generate_expert_queries(state.anomaly, call.legal))
    ELSE optimize_queries(state.search_queries, call.queries)

generate_advanced_queries_KeepsOld(state, call) ==
    IF call.raised THEN FirstThree(PadToThree(state.search_queries, state.anomaly))
    ELSE FirstThree(PadToThree(
             validate_and_truncate_queries(StrategyQueries(state, call), MaxQueryLen),
             state.anomaly))

generate_advanced_queries(state, call) ==
    IF call.raised THEN FallbackQueries(state.anomaly)
    ELSE FirstThree(PadToThree(
             validate_and_truncate_queries(StrategyQueries(state, call), MaxQueryLen),
             state.anomaly))

(***************************************************************************)
(* execute_real_search.  search_results is the dict of                     *)
(* search_multiple_queries: one entry per distinct query.  A response is   *)
(* reduced to whether it carries an AI answer and how many of its results  *)
(* carry content; TavilySearchTool.search turns a failed call into the     *)
(* empty response.                                                         *)
(***************************************************************************)
EmptyResponse == [answer |-> FALSE, results |-> 0]

HitResponse == [answer |-> TRUE, results |-> 2]

Range(s) == {s[i] : i \in 1..Len(s)}

\* what the search tool did: it raised (constructing it failed), or the query
\* at each position got the response of that position
SearchCalls ==
    { [raised |-> TRUE,  responses |-> <<EmptyResponse, EmptyResponse, EmptyResponse>>],
      [raised |-> FALSE, responses |-> <<EmptyResponse, EmptyResponse, EmptyResponse>>],
      [raised |-> FALSE, responses |-> <<HitResponse, EmptyResponse, EmptyResponse>>],
      [raised |-> FALSE, responses |-> <<HitResponse, HitResponse, HitResponse>>] }

\* all_results[query] = result, in list order: a repeated query keeps its last result
search_multiple_queries(queries, responses) ==
    [q \in Range(queries) |->
        responses[CHOOSE i \in 1..Len(queries) :
                      queries[i] = q /\ \A j \in (i + 1)..Len(queries) : queries[j] # q]]

EmptyResults == [q \in {} |-> EmptyResponse]

execute_real_search_KeepsOld(state, call) ==
    IF call.raised THEN state.search_results
    ELSE search_multiple_queries(state.search_queries, call.responses)

execute_real_search(state, call) ==
    IF call.raised THEN EmptyResults
    ELSE search_multiple_queries(state.search_queries, call.responses)

(***************************************************************************)
(* evaluate_evidence_advanced and the evaluator it calls.  An evaluation   *)
(* keeps the fields the controller, the report and the registry read;      *)
(* evidence_items is reduced to its length.                                *)
(***************************************************************************)
NoEvaluation ==
    [explanation_found |-> FALSE, confidence |-> 0, explanation_quality |-> "-",
     root_cause |-> "None", evidence_items |-> 0]

\* _create_empty_evaluation
EmptyEvaluation ==
    [explanation_found |-> FALSE, confidence |-> 0, explanation_quality |-> "poor",
     root_cause |-> "No evidence found in search results", evidence_items |-> 0]

\* the minimal evaluation of the node's except branch
MinimalEvaluation ==
    [explanation_found |-> FALSE, confidence |-> 0, explanation_quality |-> "poor",
     root_cause |-> "Evaluation failed", evidence_items |-> 0]

\* verdicts of the synthesis step (the generative verdict or the fallback);
\* explanation_quality is a str field of SynthesisResult that nothing restricts
SynthesisResults ==
    { [explanation_found |-> TRUE,  confidence |-> 90, explanation_quality |-> "excellent"],
      [explanation_found |-> TRUE,  confidence |-> 80, explanation_quality |-> "good"],
      [explanation_found |-> TRUE,  confidence |-> 70, explanation_quality |-> "good"],
      [explanation_found |-> TRUE,  confidence |-> 69, explanation_quality |-> "fair"],
      [explanation_found |-> FALSE, confidence |-> 90, explanation_quality |-> "poor"],
      [explanation_found |-> TRUE,  confidence |-> 80, explanation_quality |-> "moderate"] }

EvaluatorCalls ==
    {[raised |-> TRUE, synthesis |-> CHOOSE r \in SynthesisResults : TRUE]}
    \cup {[raised |-> FALSE, synthesis |-> r] : r \in SynthesisResults}

\* result.get('results', [])[:3]
ResultsTaken(n) == IF n < 3 THEN n ELSE 3

RECURSIVE CountEvidence(_, _)
CountEvidence(search_results, keys) ==
    IF keys = {} THEN 0
    ELSE LET q == CHOOSE k \in keys : TRUE
         IN  (IF search_results[q].answer THEN 1 ELSE 0)
             + ResultsTaken(search_results[q].results)
             + CountEvidence(search_results, keys \ {q})

\* _extract_evidence_items, as a count
ExtractEvidenceItems(search_results) ==
    CountEvidence(search_results, DOMAIN search_results)

evaluate_evidence_AlwaysSynthesizes(search_results, synthesis) ==
    [explanation_found   |-> synthesis.explanation_found,
     confidence          |-> synthesis.confidence,
     explanation_quality |-> synthesis.explanation_quality,
     root_cause          |-> "synthesis",
     evidence_items      |-> ExtractEvidenceItems(search_results)]

\* AdvancedEvidenceEvaluator.evaluate_evidence
evaluate_evidence(search_results, synthesis) ==
    LET n == ExtractEvidenceItems(search_results)
    IN  IF n = 0 THEN EmptyEvaluation
        ELSE [explanation_found   |-> synthesis.explanation_found,
              confidence          |-> synthesis.confidence,
              explanation_quality |-> synthesis.explanation_quality,
              root_cause          |-> "synthesis",
              evidence_items      |-> n]

\* the acceptance threshold of line 204, in hundredths
ConfidenceThreshold == 70

InvestigationComplete_OffByOne(evaluation, iteration, max_retries) ==
    \/ evaluation.explanation_found /\ evaluation.confidence >= ConfidenceThreshold
    \/ iteration >= max_retries

InvestigationComplete_WrongSign(evaluation, iteration, max_retries) ==
    \/ evaluation.explanation_found /\ evaluation.confidence >= ConfidenceThreshold
    \/ iteration >= max_retries + 1

InvestigationComplete_ConfidenceOnly(evaluation, iteration, max_retries) ==
    \/ evaluation.confidence >= ConfidenceThreshold
    \/ iteration >= max_retries - 1

InvestigationComplete_FoundOnly(evaluation, iteration, max_retries) ==
    \/ evaluation.explanation_found
    \/ iteration >= max_retries - 1

\* lines 203-206
InvestigationComplete(evaluation, iteration, max_retries) ==
    \/ evaluation.explanation_found /\ evaluation.confidence >= ConfidenceThreshold
    \/ iteration >= max_retries - 1

evaluate_evidence_advanced_StopsOnError(state, call, max_retries) ==
    IF call.raised
    THEN [evidence_evaluation    |-> MinimalEvaluation,
          investigation_complete |-> TRUE]
    ELSE LET evaluation == evaluate_evidence(state.search_results, call.synthesis)
         IN  [evidence_evaluation    |-> evaluation,
              investigation_complete |->
                  InvestigationComplete(evaluation, state.iteration, max_retries)]

\* the node's result: the two fields it returns
evaluate_evidence_advanced(state, call, max_retries) ==
    IF call.raised
    THEN [evidence_evaluation    |-> MinimalEvaluation,
          investigation_complete |-> state.iteration >= max_retries - 1]
    ELSE LET evaluation == evaluate_evidence(state.search_results, call.synthesis)
         IN  [evidence_evaluation    |-> evaluation,
              investigation_complete |->
                  InvestigationComplete(evaluation, state.iteration, max_retries)]

increment_iteration_Stays(state) == state.iteration

\* increment_iteration
increment_iteration(state) == state.iteration + 1

(***************************************************************************)
(* generate_comprehensive_report.  The report text is reduced to what the  *)
(* node hands to the report generator: the verdict and iterations.         *)
(***************************************************************************)
EmptyReport == [kind |-> "empty", status |-> "-", iterations |-> 0]

ReportCalls == {[raised |-> TRUE], [raised |-> FALSE]}

generate_comprehensive_report_ZeroBased(state, call) ==
    IF call.raised
    THEN [kind |-> "failed", status |-> "-", iterations |-> 0]
    ELSE [kind       |-> "report",
          status     |-> IF state.evidence_evaluation.explanation_found
                         THEN "SOLVED" ELSE "UNSOLVED",
          iterations |-> state.iteration]

generate_comprehensive_report_LeavesEmpty(state, call) ==
    IF call.raised
    THEN EmptyReport
    ELSE [kind       |-> "report",
          status     |-> IF state.evidence_evaluation.explanation_found
                         THEN "SOLVED" ELSE "UNSOLVED",
          iterations |-> state.iteration + 1]

generate_comprehensive_report(state, call) ==
    IF call.raised
    THEN [kind |-> "failed", status |-> "-", iterations |-> 0]
    ELSE [kind       |-> "report",
          status     |-> IF state.evidence_evaluation.explanation_found
                         THEN "SOLVED" ELSE "UNSOLVED",
          iterations |-> state.iteration + 1]

should_continue_investigation_Inverted(state) ==
    IF state.investigation_complete THEN "retry" ELSE "report"

\* should_continue_investigation
should_continue_investigation(state) ==
    IF state.investigation_complete THEN "report" ELSE "retry"

\* the mapping of add_conditional_edges
ConditionalTarget(label) == IF label = "retry" THEN "increment" ELSE "report"

(***************************************************************************)
(* The compiled graph and the service around it.                           *)
(***************************************************************************)
Nodes == {"generate_queries", "search", "evaluate", "increment", "report"}

EdgeTarget_ReportLoops(node) ==
    CASE node = "generate_queries" -> "search"
      [] node = "search"           -> "evaluate"
      [] node = "increment"        -> "generate_queries"
      [] node = "report"           -> "generate_queries"

\* add_edge: the unconditional edges (lines 330-332, 344-345)
EdgeTarget(node) ==
    CASE node = "generate_queries" -> "search"
      [] node = "search"           -> "evaluate"
      [] node = "increment"        -> "generate_queries"
      [] node = "report"           -> "END"

\* {"recursion_limit": 50}: the most node executions one invoke may make
RecursionLimit == 50

\* Settings.max_retries (default 3) ranges over 1..MaxRetriesBound, and over
\* one value large enough for a full run to need more than RecursionLimit
\* node executions (4 per iteration)
MaxRetriesBound == 3

CeilingRetries == 13

MaxRetriesValues == (1..MaxRetriesBound) \cup {CeilingRetries}

InvId == "inv-1"

\* the dict handed to investigation_app.invoke
InitialState(anomaly) ==
    [anomaly                |-> anomaly,
     search_queries         |-> << >>,
     search_results         |-> EmptyResults,
     evidence_evaluation    |-> NoEvaluation,
     iteration              |-> 0,
     investigation_complete |-> FALSE,
     final_report           |-> EmptyReport]

\* datetime.now().isoformat() at the three places that write the registry:
\* the request, the start of the task and its end
Now(place) == place

\* the registry entry start_investigation creates
PendingEntry(investigation_id, ticker) ==
    [investigation_id |-> investigation_id, ticker |-> ticker, status |-> "pending",
     created_at |-> Now("request"), updated_at |-> Now("request")]

\* the fields run_investigation_task writes before invoke
InProgressUpdate == [status |-> "in_progress", updated_at |-> Now("start")]

CompletedUpdate_StatusFirst(result) ==
    [status |-> "completed", updated_at |-> Now("end")]

\* the fields run_investigation_task writes after invoke returned `result`
CompletedUpdate(result) ==
    [status            |-> "completed",
     explanation_found |-> result.evidence_evaluation.explanation_found,
     confidence        |-> result.evidence_evaluation.confidence,
     root_cause        |-> result.evidence_evaluation.root_cause,
     quality           |-> result.evidence_evaluation.explanation_quality,
     iterations        |-> result.iteration + 1,
     queries_used      |-> result.search_queries,
     report            |-> result.final_report,
     updated_at        |-> Now("end")]

FailedUpdate_KeepsStatus(error) == [error |-> error, updated_at |-> Now("end")]

FailedUpdate_Completed(error) ==
    [status |-> "completed", error |-> error, updated_at |-> Now("end")]

FailedUpdate_Requeues(error) ==
    [status |-> "pending", error |-> error, updated_at |-> Now("end")]

\* the fields the except branch writes
FailedUpdate(error) == [status |-> "failed", error |-> error, updated_at |-> Now("end")]

store_update_First(registry, investigation_id, fields) ==
    [registry EXCEPT ![CHOOSE id \in DOMAIN registry : TRUE] = fields @@ @]

\* investigations_store[investigation_id].update(fields)
store_update(registry, investigation_id, fields) ==
    [registry EXCEPT ![investigation_id] = fields @@ @]

\* str(uuid.uuid4()) of two requests: the identifiers differ
InvestigationIds == {"inv-1", "inv-2"}

\* a background task that has not been requested
IdleRun ==
    [status |-> "none", script |-> << >>, state |-> InitialState(<< >>),
     pc |-> "idle", steps |-> 0]

\* app.invoke(initial_state, {"recursion_limit": 100})
MonitorRecursionLimit == 100

\* the initial state of a monitoring cycle; a ticker is written as its
\* position in the watchlist, "" as 0, and anomaly_detected as whether an
\* anomaly was returned
MonitoringState(watchlist) ==
    [watchlist        |-> watchlist,
     current_ticker   |-> 0,
     current_index    |-> 0,
     anomaly_detected |-> FALSE,
     should_continue  |-> TRUE]

\* no monitoring cycle has been started; checked and failed are history:
\* the tickers handed to check_for_anomaly, and whether an investigation
\* raised
IdleMonitor ==
    [status |-> "none", state |-> MonitoringState(<< >>), pc |-> "idle", steps |-> 0,
     checked |-> << >>, failed |-> FALSE]

\* no function is exercised on its own during a run of the service
NoCall == [op |-> "none"]

VARIABLES
    max_retries,   \* settings.max_retries
    store,         \* investigations_store
    task,          \* the background task: its status and its anomaly argument
    state,         \* the InvestigationState of the running graph
    pc,            \* the node the graph executes next, "END", or "raised"
    steps,         \* node executions of this invoke
    executed,      \* history: how often each node has run
    gen,           \* history: the strategy of the last generate step, whether it
                   \* raised, and whether its response yielded any query
    evidence_seen, \* history: some search of this run returned an evidence item
    evaluator_raised, \* history: the evaluator raised in the last evaluate step
    provenance,    \* history: the iteration whose generate step produced search_queries
                   \* and the iteration whose search step stored search_results
    fn,            \* the call under test when a function is exercised on its own
    runs,          \* the background tasks of two requests served together
    monitor        \* the monitoring cycle of run_production_monitor

vars == <<max_retries, store, task, state, pc, steps, executed, gen, evidence_seen, provenance, evaluator_raised, fn, runs, monitor>>

\* the service after start-up, with settings.max_retries one of `values`
ServiceInit(values) ==
    /\ max_retries \in values
    /\ store = [id \in {} |-> PendingEntry(InvId, << >>)]
    /\ task = [status |-> "none", anomaly |-> << >>]
    /\ state = InitialState(<< >>)
    /\ pc = "idle"
    /\ steps = 0
    /\ executed = [n \in Nodes |-> 0]
    /\ gen = [strategy |-> "none", raised |-> FALSE, improved |-> FALSE]
    /\ evidence_seen = FALSE
    /\ provenance = [queries |-> -1, results |-> -1]
    /\ evaluator_raised = FALSE
    /\ fn = NoCall
    /\ runs = [id \in InvestigationIds |-> IdleRun]
    /\ monitor = IdleMonitor

Init == ServiceInit(MaxRetriesValues)

\* POST /investigate/{ticker}, when the detector reports an anomaly
StartInvestigation ==
    /\ task.status = "none"
    /\ \E ticker \in Tickers :
          /\ store' = (InvId :> PendingEntry(InvId, ticker)) @@ store
          /\ task' = [status |-> "scheduled", anomaly |-> ticker]
    /\ UNCHANGED <<max_retries, state, pc, steps, executed, gen, evidence_seen, provenance, evaluator_raised, fn, runs, monitor>>

\* run_investigation_task up to the call of invoke
TaskBegin ==
    /\ task.status = "scheduled"
    /\ store' = store_update(store, InvId, InProgressUpdate)
    /\ task' = [task EXCEPT !.status = "running"]
    /\ state' = InitialState(task.anomaly)
    /\ pc' = "generate_queries"
    /\ steps' = 0
    /\ UNCHANGED <<max_retries, executed, gen, evidence_seen, provenance, evaluator_raised, fn, runs, monitor>>

Runs(node) ==
    /\ task.status = "running"
    /\ pc = node
    /\ steps < RecursionLimit
    /\ steps' = steps + 1
    /\ executed' = [executed EXCEPT ![node] = @ + 1]

GenerateQueries ==
    /\ Runs("generate_queries")
    /\ \E call \in StrategyCalls(state.iteration) :
          /\ state' = [state EXCEPT
                          !.search_queries = generate_advanced_queries(state, call)]
          /\ gen' = [strategy |-> StrategyOf(state.iteration),
                     raised   |-> call.raised,
                     improved |-> call.queries # << >>]
    /\ provenance' = [provenance EXCEPT !.queries = state.iteration]
    /\ pc' = EdgeTarget("generate_queries")
    /\ UNCHANGED <<max_retries, store, task, evidence_seen, evaluator_raised, fn, runs, monitor>>

Search ==
    /\ Runs("search")
    /\ \E call \in SearchCalls :
          LET results == execute_real_search(state, call)
          IN  /\ state' = [state EXCEPT !.search_results = results]
              /\ evidence_seen' = (evidence_seen \/ ExtractEvidenceItems(results) > 0)
    /\ provenance' = [provenance EXCEPT !.results = state.iteration]
    /\ pc' = EdgeTarget("search")
    /\ UNCHANGED <<max_retries, store, task, gen, evaluator_raised, fn, runs, monitor>>

Evaluate ==
    /\ Runs("evaluate")
    /\ \E call \in EvaluatorCalls :
          LET update == evaluate_evidence_advanced(state, call, max_retries)
              new    == [state EXCEPT
                            !.evidence_evaluation = update.evidence_evaluation,
                            !.investigation_complete = update.investigation_complete]
          IN  /\ state' = new
              /\ pc' = ConditionalTarget(should_continue_investigation(new))
              /\ evaluator_raised' = call.raised
    /\ UNCHANGED <<max_retries, store, task, gen, evidence_seen, provenance, fn, runs, monitor>>

Increment ==
    /\ Runs("increment")
    /\ state' = [state EXCEPT !.iteration = increment_iteration(state)]
    /\ pc' = EdgeTarget("increment")
    /\ UNCHANGED <<max_retries, store, task, gen, evidence_seen, provenance, evaluator_raised, fn, runs, monitor>>

Report ==
    /\ Runs("report")
    /\ \E call \in ReportCalls :
          state' = [state EXCEPT !.final_report = generate_comprehensive_report(state, call)]
    /\ pc' = EdgeTarget("report")
    /\ UNCHANGED <<max_retries, store, task, gen, evidence_seen, provenance, evaluator_raised, fn, runs, monitor>>

\* invoke raises GraphRecursionError: the limit is reached and the graph has not ended
RecursionLimitReached ==
    /\ task.status = "running"
    /\ pc \in Nodes
    /\ steps >= RecursionLimit
    /\ pc' = "raised"
    /\ UNCHANGED <<max_retries, store, task, state, steps, executed, gen, evidence_seen, provenance, evaluator_raised, fn, runs, monitor>>

\* run_investigation_task after invoke returned
TaskComplete ==
    /\ task.status = "running"
    /\ pc = "END"
    /\ store' = store_update(store, InvId, CompletedUpdate(state))
    /\ task' = [task EXCEPT !.status = "done"]
    /\ UNCHANGED <<max_retries, state, pc, steps, executed, gen, evidence_seen, provenance, evaluator_raised, fn, runs, monitor>>

\* run_investigation_task's except branch
TaskFail ==
    /\ task.status = "running"
    /\ pc = "raised"
    /\ store' = store_update(store, InvId, FailedUpdate("GraphRecursionError"))
    /\ task' = [task EXCEPT !.status = "done"]
    /\ UNCHANGED <<max_retries, state, pc, steps, executed, gen, evidence_seen, provenance, evaluator_raised, fn, runs, monitor>>

TaskStep ==
    \/ TaskBegin
    \/ GenerateQueries
    \/ Search
    \/ Evaluate
    \/ Increment
    \/ Report
    \/ RecursionLimitReached
    \/ TaskComplete
    \/ TaskFail

Next == StartInvestigation \/ TaskStep

Spec == Init /\ [][Next]_vars

\* the event loop runs a scheduled background task, and every call a node
\* makes returns or raises
FairSpec == Spec /\ WF_vars(TaskStep)

\* the largest max_retries whose full run fits the recursion limit: a run
\* executes four nodes in each iteration
FittingRetries == RecursionLimit \div 4

\* the service with max_retries at the default and on both sides of the limit
CeilingInit == ServiceInit((1..MaxRetriesBound) \cup {FittingRetries, FittingRetries + 1})

CeilingSpec == CeilingInit /\ [][Next]_vars


(***************************************************************************)
(* The functions of the query normalizer, the evaluator and the            *)
(* credibility classifier, each called on its own with inputs drawn from   *)
(* the sets below.  fn records the call: its input and what it returned.   *)
(* The service does not run meanwhile.                                     *)
(***************************************************************************)
investigation == <<max_retries, store, task, state, pc, steps, executed, gen, evidence_seen, provenance, evaluator_raised, runs>>

service == <<investigation, monitor>>

\* a query that starts with a year
QYearFirst == <<"2", "0", "2", "5", " ", "M", "S", "F", "T", " ", "e", "a", "r", "n", "i", "n", "g", "s", " ", "g", "u", "i", "d", "a", "n", "c", "e", " ", "c", "u", "t">>

RawQueries ==
    {QNumberedBold, QShort, QFifteen, QSixteen, QQuotedDash, QYearFirst,
     QLongWords, QLongNoSpace, QLongLateSpace}

\* lists of at most two raw queries
NormalizeInputs ==
    {<< >>} \cup {<<a>> : a \in RawQueries}
            \cup {<<a, b>> : a \in RawQueries, b \in RawQueries}

\* validate_and_truncate_queries(queries, max_length=250)
Normalize ==
    /\ fn.op = "none"
    /\ \E queries \in NormalizeInputs :
          fn' = [op      |-> "normalize",
                 input   |-> queries,
                 applied |-> 1,
                 output  |-> validate_and_truncate_queries(queries, MaxQueryLen),
                 first   |-> validate_and_truncate_queries(queries, MaxQueryLen)]
    /\ UNCHANGED service

\* the function applied to its own output
NormalizeAgain ==
    /\ fn.op = "normalize"
    /\ fn.applied = 1
    /\ fn' = [fn EXCEPT !.applied = 2,
                        !.output  = validate_and_truncate_queries(fn.output, MaxQueryLen)]
    /\ UNCHANGED service

(***************************************************************************)
(* SourceCredibilityScorer.  Scores are in hundredths.                     *)
(***************************************************************************)
\* the positions at which p occurs in s
Occurrences(s, p) ==
    {i \in 1..(Len(s) - Len(p) + 1) : SubSeq(s, i, i + Len(p) - 1) = p}

\* s.find(p) + 1: the first position at which p occurs in s, 0 when it does not
Find(s, p) ==
    IF Occurrences(s, p) = {} THEN 0
    ELSE CHOOSE i \in Occurrences(s, p) : \A j \in Occurrences(s, p) : i <= j

\* p in s, for a non-empty p
Contains(s, p) == Find(s, p) > 0

\* s.split(p)[0]
BeforeFirst(s, p) == IF Find(s, p) = 0 THEN s ELSE SubSeq(s, 1, Find(s, p) - 1)

\* what follows the first occurrence of p in s (s holds p)
AfterFirst(s, p) == SubSeq(s, Find(s, p) + Len(p), Len(s))

UpperLetters == <<"A", "B", "C", "D", "E", "F", "G", "H", "I", "J", "K", "L", "M", "N", "O", "P", "Q", "R", "S", "T", "U", "V", "W", "X", "Y", "Z">>

LowerLetters == <<"a", "b", "c", "d", "e", "f", "g", "h", "i", "j", "k", "l", "m", "n", "o", "p", "q", "r", "s", "t", "u", "v", "w", "x", "y", "z">>

\* str.lower(), on the ASCII letters
LowerChar(c) ==
    IF \E k \in 1..Len(UpperLetters) : UpperLetters[k] = c
    THEN LowerLetters[CHOOSE k \in 1..Len(UpperLetters) : UpperLetters[k] = c]
    ELSE c

Lower(s) == [i \in 1..Len(s) |-> LowerChar(s[i])]

SchemeSeparator == <<":", "/", "/">>

\* _extract_domain: url.split("://")[1] when the url holds "://", then
\* split("/")[0], lowered
extract_domain(url) ==
    LET rest == IF Contains(url, SchemeSeparator)
                THEN BeforeFirst(AfterFirst(url, SchemeSeparator), SchemeSeparator)
                ELSE url
    IN  Lower(BeforeFirst(rest, <<"/">>))

\* pattern.split("*")
RECURSIVE SplitStar(_)
SplitStar(pattern) ==
    IF ~Contains(pattern, <<"*">>) THEN <<pattern>>
    ELSE <<BeforeFirst(pattern, <<"*">>)>> \o SplitStar(AfterFirst(pattern, <<"*">>))

matches_pattern_Substring(domain, pattern) ==
    IF Contains(pattern, <<"*">>)
    THEN \A k \in 1..Len(SplitStar(pattern)) :
             \/ SplitStar(pattern)[k] = << >>
             \/ Contains(domain, SplitStar(pattern)[k])
    ELSE Contains(domain, pattern)

\* _matches_pattern
matches_pattern(domain, pattern) ==
    IF Contains(pattern, <<"*">>)
    THEN \A k \in 1..Len(SplitStar(pattern)) :
             \/ SplitStar(pattern)[k] = << >>
             \/ Contains(domain, SplitStar(pattern)[k])
    ELSE domain = pattern

\* self.source_tiers, in the order of the dict
source_tiers ==
    << [pattern |-> <<"s", "e", "c", ".", "g", "o", "v">>,           tier |-> "tier_1_official",   score |-> 100],
       [pattern |-> <<"i", "n", "v", "e", "s", "t", "o", "r", ".", "*", ".", "c", "o", "m">>,    tier |-> "tier_1_official",   score |-> 98],
       [pattern |-> <<"i", "r", ".", "*", ".", "c", "o", "m">>,          tier |-> "tier_1_official",   score |-> 98],
       [pattern |-> <<"b", "l", "o", "o", "m", "b", "e", "r", "g", ".", "c", "o", "m">>,     tier |-> "tier_2_premium",    score |-> 94],
       [pattern |-> <<"r", "e", "u", "t", "e", "r", "s", ".", "c", "o", "m">>,       tier |-> "tier_2_premium",    score |-> 93],
       [pattern |-> <<"w", "s", "j", ".", "c", "o", "m">>,           tier |-> "tier_2_premium",    score |-> 92],
       [pattern |-> <<"f", "t", ".", "c", "o", "m">>,            tier |-> "tier_2_premium",    score |-> 91],
       [pattern |-> <<"b", "a", "r", "r", "o", "n", "s", ".", "c", "o", "m">>,       tier |-> "tier_2_premium",    score |-> 90],
       [pattern |-> <<"c", "n", "b", "c", ".", "c", "o", "m">>,          tier |-> "tier_3_mainstream", score |-> 84],
       [pattern |-> <<"m", "a", "r", "k", "e", "t", "w", "a", "t", "c", "h", ".", "c", "o", "m">>,   tier |-> "tier_3_mainstream", score |-> 82],
       [pattern |-> <<"f", "i", "n", "a", "n", "c", "e", ".", "y", "a", "h", "o", "o", ".", "c", "o", "m">>, tier |-> "tier_3_mainstream", score |-> 80],
       [pattern |-> <<"i", "n", "v", "e", "s", "t", "o", "p", "e", "d", "i", "a", ".", "c", "o", "m">>,  tier |-> "tier_3_mainstream", score |-> 78],
       [pattern |-> <<"f", "o", "r", "b", "e", "s", ".", "c", "o", "m">>,        tier |-> "tier_3_mainstream", score |-> 75],
       [pattern |-> <<"s", "e", "e", "k", "i", "n", "g", "a", "l", "p", "h", "a", ".", "c", "o", "m">>,  tier |-> "tier_4_aggregator", score |-> 68],
       [pattern |-> <<"f", "o", "o", "l", ".", "c", "o", "m">>,          tier |-> "tier_4_aggregator", score |-> 65],
       [pattern |-> <<"b", "e", "n", "z", "i", "n", "g", "a", ".", "c", "o", "m">>,      tier |-> "tier_4_aggregator", score |-> 62],
       [pattern |-> <<"z", "a", "c", "k", "s", ".", "c", "o", "m">>,         tier |-> "tier_4_aggregator", score |-> 60],
       [pattern |-> <<"t", "w", "i", "t", "t", "e", "r", ".", "c", "o", "m">>,       tier |-> "tier_5_social",     score |-> 40],
       [pattern |-> <<"r", "e", "d", "d", "i", "t", ".", "c", "o", "m">>,        tier |-> "tier_5_social",     score |-> 35],
       [pattern |-> <<"m", "e", "d", "i", "u", "m", ".", "c", "o", "m">>,        tier |-> "tier_5_social",     score |-> 30] >>

\* SourceTier
SourceTiers ==
    {"tier_1_official", "tier_2_premium", "tier_3_mainstream", "tier_4_aggregator",
     "tier_5_social", "tier_unknown"}

\* the credibility of an unknown source (line 94)
UnknownScore == 40

\* the entries of source_tiers whose pattern the domain matches
MatchingTiers(domain) ==
    {k \in 1..Len(source_tiers) : matches_pattern(domain, source_tiers[k].pattern)}

score_source_UnknownIsSocial(url) ==
    LET domain == extract_domain(url)
    IN  IF MatchingTiers(domain) = {}
        THEN [domain |-> domain, tier |-> "tier_5_social", credibility_score |-> 30]
        ELSE LET k == CHOOSE i \in MatchingTiers(domain) :
                          \A j \in MatchingTiers(domain) : i <= j
             IN  [domain            |-> domain,
                  tier              |-> source_tiers[k].tier,
                  credibility_score |-> source_tiers[k].score]

\* score_source: the first matching entry, else the unknown tier
score_source(url) ==
    LET domain == extract_domain(url)
    IN  IF MatchingTiers(domain) = {}
        THEN [domain |-> domain, tier |-> "tier_unknown", credibility_score |-> UnknownScore]
        ELSE LET k == CHOOSE i \in MatchingTiers(domain) :
                          \A j \in MatchingTiers(domain) : i <= j
             IN  [domain            |-> domain,
                  tier              |-> source_tiers[k].tier,
                  credibility_score |-> source_tiers[k].score]

\* urls: those of the module's own test, and strings that are no url
Urls ==
    { <<"h", "t", "t", "p", "s", ":", "/", "/", "w", "w", "w", ".", "s", "e", "c", ".", "g", "o", "v", "/", "c", "g", "i", "-", "b", "i", "n", "/", "b", "r", "o", "w", "s", "e", "-", "e", "d", "g", "a", "r">>,
      <<"h", "t", "t", "p", "s", ":", "/", "/", "s", "e", "c", ".", "g", "o", "v", "/", "c", "g", "i", "-", "b", "i", "n", "/", "b", "r", "o", "w", "s", "e", "-", "e", "d", "g", "a", "r">>,
      <<"S", "E", "C", ".", "G", "O", "V">>,
      <<"h", "t", "t", "p", "s", ":", "/", "/", "w", "w", "w", ".", "b", "l", "o", "o", "m", "b", "e", "r", "g", ".", "c", "o", "m", "/", "n", "e", "w", "s", "/", "a", "r", "t", "i", "c", "l", "e", "s", "/", "2", "0", "2", "5", "-", "1", "1", "-", "2", "7", "/", "a", "p", "p", "l", "e", "-", "s", "t", "o", "c", "k">>,
      <<"h", "t", "t", "p", "s", ":", "/", "/", "B", "l", "o", "o", "m", "b", "e", "r", "g", ".", "c", "o", "m", "/", "n", "e", "w", "s">>,
      <<"h", "t", "t", "p", "s", ":", "/", "/", "w", "w", "w", ".", "c", "n", "b", "c", ".", "c", "o", "m", "/", "2", "0", "2", "5", "/", "1", "1", "/", "2", "7", "/", "t", "e", "s", "l", "a", "-", "e", "a", "r", "n", "i", "n", "g", "s", ".", "h", "t", "m", "l">>,
      <<"h", "t", "t", "p", "s", ":", "/", "/", "s", "e", "e", "k", "i", "n", "g", "a", "l", "p", "h", "a", ".", "c", "o", "m", "/", "a", "r", "t", "i", "c", "l", "e", "/", "a", "p", "p", "l", "e", "-", "a", "n", "a", "l", "y", "s", "i", "s">>,
      <<"h", "t", "t", "p", "s", ":", "/", "/", "t", "w", "i", "t", "t", "e", "r", ".", "c", "o", "m", "/", "e", "l", "o", "n", "m", "u", "s", "k", "/", "s", "t", "a", "t", "u", "s", "/", "1", "2", "3", "4", "5", "6">>,
      <<"h", "t", "t", "p", "s", ":", "/", "/", "u", "n", "k", "n", "o", "w", "n", "-", "b", "l", "o", "g", ".", "c", "o", "m", "/", "s", "t", "o", "c", "k", "-", "t", "i", "p", "s">>,
      <<"h", "t", "t", "p", "s", ":", "/", "/", "i", "n", "v", "e", "s", "t", "o", "r", ".", "a", "p", "p", "l", "e", ".", "c", "o", "m", "/", "n", "e", "w", "s">>,
      <<"i", "r", ".", "t", "e", "s", "l", "a", ".", "c", "o", "m", "/", "q", "3">>,
      <<"h", "t", "t", "p", ":", "/", "/", "f", "i", "n", "a", "n", "c", "e", ".", "y", "a", "h", "o", "o", ".", "c", "o", "m", "/", "q", "u", "o", "t", "e", "/", "M", "S", "F", "T">>,
      <<"h", "t", "t", "p", "s", ":", "/", "/", "w", "w", "w", ".", "r", "e", "d", "d", "i", "t", ".", "c", "o", "m", "/", "r", "/", "s", "t", "o", "c", "k", "s">>,
      <<"h", "t", "t", "p", "s", ":", "/", "/", "r", "e", "d", "d", "i", "t", ".", "c", "o", "m", "/", "r", "/", "s", "t", "o", "c", "k", "s", "/", "c", "o", "m", "m", "e", "n", "t", "s", "/", "1">>,
      <<"f", "t", "p", ":", "/", "/", "a", ":", "/", "/", "r", "e", "d", "d", "i", "t", ".", "c", "o", "m", "/", "r", "/", "s", "t", "o", "c", "k", "s">>,
      <<"h", "t", "t", "p", "s", ":", "/", "/", "m", "e", "d", "i", "u", "m", ".", "c", "o", "m", ".", "e", "v", "i", "l", ".", "e", "x", "a", "m", "p", "l", "e", "/", "p", "o", "s", "t">>,
      <<"u", "n", "k", "n", "o", "w", "n">>,
      <<"t", "a", "v", "i", "l", "y", "_", "a", "i", "_", "s", "y", "n", "t", "h", "e", "s", "i", "s">>,
      <<":", "/", "/">>,
      <<"/">>,
      <<"*">>,
      << >> }

\* score_source(url)
ScoreSource ==
    /\ fn.op = "none"
    /\ \E url \in Urls :
          fn' = [op     |-> "score_source",
                 input  |-> url,
                 calls  |-> 1,
                 result |-> score_source(url),
                 first  |-> score_source(url)]
    /\ UNCHANGED service

\* a second call of the same scorer with the same input
ScoreSourceAgain ==
    /\ fn.op = "score_source"
    /\ fn.calls = 1
    /\ fn' = [fn EXCEPT !.calls = 2, !.result = score_source(fn.input)]
    /\ UNCHANGED service


\* domains as _extract_domain hands them to the matcher
Domains ==
    { <<"i", "n", "v", "e", "s", "t", "o", "r", ".", "a", "p", "p", "l", "e", ".", "c", "o", "m">>,
      <<"i", "n", "v", "e", "s", "t", "o", "r", ".", "c", "o", "m">>,
      <<"i", "n", "v", "e", "s", "t", "o", "r", ".", ".", "c", "o", "m">>,
      <<"w", "w", "w", ".", "c", "o", "m", ".", "i", "n", "v", "e", "s", "t", "o", "r", ".", "o", "r", "g">>,
      <<"a", "p", "p", "l", "e", ".", "c", "o", "m">>,
      <<"i", "r", ".", "t", "e", "s", "l", "a", ".", "c", "o", "m">>,
      <<"i", "r", ".", "c", "o", "m">>,
      <<"s", "e", "c", ".", "g", "o", "v">>,
      << >> }

\* the patterns of source_tiers
Patterns == {source_tiers[k].pattern : k \in 1..Len(source_tiers)}

\* _matches_pattern(domain, pattern)
MatchPattern ==
    /\ fn.op = "none"
    /\ \E domain \in Domains, pattern \in Patterns :
          fn' = [op      |-> "match",
                 domain  |-> domain,
                 pattern |-> pattern,
                 result  |-> matches_pattern(domain, pattern)]
    /\ UNCHANGED service

(***************************************************************************)
(* StockAnomaly.  Percentages and the volume ratio are in tenths.          *)
(***************************************************************************)
Abs(v) == IF v < 0 THEN 0 - v ELSE v

\* the magnitude the validator significant_change compares with (line 27)
SignificantChange == 100

\* StockAnomaly(...): the field constraints and the validator
\* significant_change decide whether the constructor returns or raises
StockAnomaly(price, price_change_percent, volume, volume_ratio) ==
    [constructed          |-> /\ price > 0
                              /\ volume > 0
                              /\ volume_ratio > 10
                              /\ ~(Abs(price_change_percent) < SignificantChange),
     price_change_percent |-> price_change_percent]

\* values of settings.anomaly_threshold: the default and one on either side
AnomalyThresholds == {50, 100, 150}

\* price changes on either side of each threshold
PriceChanges == {-200, -150, -120, -100, -99, -70, -50, -49, 0, 49, 50, 70, 99, 100, 120, 149, 150, 200}

\* StockAnomaly(ticker=..., price=..., price_change_percent=..., volume=..., volume_ratio=...)
ConstructAnomaly ==
    /\ fn.op = "none"
    /\ \E threshold \in AnomalyThresholds, change \in PriceChanges,
          price \in {0, 250}, volume_ratio \in {10, 35} :
          fn' = [op                |-> "construct",
                 anomaly_threshold |-> threshold,
                 input             |-> change,
                 result            |-> StockAnomaly(price, change, 1000, volume_ratio)]
    /\ UNCHANGED service
(***************************************************************************)
(* AdvancedAnomalyDetector.  Both functions compute the same metrics from  *)
(* the 30-day history of a ticker; the metrics are the input here, in      *)
(* tenths (percent, ratio and RSI points).                                 *)
(***************************************************************************)
\* check_for_anomaly, lines 105-140
check_for_anomaly_score(m) ==
    (IF Abs(m.price_change_percent) >= 100 THEN 3
     ELSE IF Abs(m.price_change_percent) >= 50 THEN 2
     ELSE IF Abs(m.price_change_percent) >= 20 THEN 1 ELSE 0)
    + (IF m.volume_ratio >= 50 THEN 2 ELSE IF m.volume_ratio >= 30 THEN 1 ELSE 0)
    + (IF m.volatility > 20 THEN 1 ELSE 0)
    + (IF m.rsi < 300 \/ m.rsi > 700 THEN 1 ELSE 0)
    + (IF Abs(m.gap_percent) >= 30 THEN 1 ELSE 0)

\* check_for_anomaly: an event is returned when the score reaches 5 and the
\* StockAnomaly constructor does not raise (the except branch returns None)
check_for_anomaly(m) ==
    [anomaly_score |-> check_for_anomaly_score(m),
     event         |-> /\ check_for_anomaly_score(m) >= 5
                       /\ StockAnomaly(m.price, m.price_change_percent, m.volume,
                                       m.volume_ratio).constructed]

\* analyze_stock_detailed, lines 200-225
analyze_stock_detailed(m) ==
    LET score ==
            (IF Abs(m.price_change_percent) > 100 THEN 3
             ELSE IF Abs(m.price_change_percent) > 50 THEN 2
             ELSE IF Abs(m.price_change_percent) > 20 THEN 1 ELSE 0)
            + (IF m.volume_ratio > 50 THEN 2 ELSE IF m.volume_ratio > 30 THEN 1 ELSE 0)
            + (IF m.rsi < 300 \/ m.rsi > 700 THEN 1 ELSE 0)
            + (IF m.volatility > 20 THEN 1 ELSE 0)
            + (IF Abs(m.gap_percent) > 30 THEN 1 ELSE 0)
    IN  [anomaly_score |-> score, is_anomaly |-> score >= 5]

\* metrics on either side of the thresholds and on them
MarketMetrics ==
    [price                : {250},
     volume               : {1000},
     price_change_percent : {-120, 20, 50, 60, 100, 120},
     volume_ratio         : {8, 30, 50, 55},
     volatility           : {15, 25},
     rsi                  : {250, 500},
     gap_percent          : {0, 30, 40}]

\* both analyses of the same market data
DetectAnomaly ==
    /\ fn.op = "none"
    /\ \E m \in MarketMetrics :
          fn' = [op       |-> "detect",
                 input    |-> m,
                 check    |-> check_for_anomaly(m),
                 detailed |-> analyze_stock_detailed(m)]
    /\ UNCHANGED service

(***************************************************************************)
(* AdvancedEvidenceEvaluator, item by item.  The scores of an item are in  *)
(* hundredths.  A response of the scoring capability is a sequence of      *)
(* lexemes: numerals, a word, ',' and ' '.                                 *)
(***************************************************************************)
\* a float: not-a-number, or a value in hundredths
Float(v) == [nan |-> FALSE, v |-> v]

NaN == [nan |-> TRUE, v |-> 0]

\* float(text) of the numerals the responses use
NumeralValue ==
    [n \in {"0.85", "0.5", "1.5", "-0.2", "nan"} |->
        CASE n = "0.85" -> Float(85)
          [] n = "0.5"  -> Float(50)
          [] n = "1.5"  -> Float(150)
          [] n = "-0.2" -> Float(-20)
          [] n = "nan"  -> NaN]

Lexemes == DOMAIN NumeralValue \cup {"abc", ",", " "}

\* a < b on floats: false when either is not a number
Less(a, b) == ~a.nan /\ ~b.nan /\ a.v < b.v

\* min(a, b) and max(a, b) of Python: the first argument unless the second
\* is smaller (larger)
PyMin(a, b) == IF Less(b, a) THEN b ELSE a

PyMax(a, b) == IF Less(a, b) THEN b ELSE a

\* max(0.0, min(1.0, x))
Clamp(x) == PyMax(Float(0), PyMin(Float(100), x))

\* float(s.strip()) succeeds: one numeral between blanks
IsFloat(s) == Len(Strip(s)) = 1 /\ Strip(s)[1] \in DOMAIN NumeralValue

ParseFloat(s) == NumeralValue[Strip(s)[1]]

\* scores_text.split(','), as far as scores[0] and scores[1]
ScoreFields(content) ==
    LET text == Strip(content)
    IN  IF ~Contains(text, <<",">>) THEN <<text>>
        ELSE <<BeforeFirst(text, <<",">>),
               BeforeFirst(AfterFirst(text, <<",">>), <<",">>)>>

\* the try block of lines 175-186 ran to its end
ScoresParsed(call) ==
    /\ ~call.raised
    /\ Len(ScoreFields(call.content)) = 2
    /\ IsFloat(ScoreFields(call.content)[1])
    /\ IsFloat(ScoreFields(call.content)[2])

\* the credibility of Tavily's own answer (line 148)
AiSynthesisCredibility == 85

\* the neutral score of the except branch (lines 190-191)
DefaultScore == 50

\* lines 146-151
SourceCredibility(item) ==
    IF item.type = "ai_synthesis" THEN AiSynthesisCredibility
    ELSE score_source(item.source_url).credibility_score

score_evidence_item_KeepsParsed(item, call) ==
    [source_url         |-> item.source_url,
     source_credibility |-> SourceCredibility(item),
     relevance_score    |->
         IF ~call.raised /\ IsFloat(ScoreFields(call.content)[1])
         THEN Clamp(ParseFloat(ScoreFields(call.content)[1])).v
         ELSE DefaultScore,
     specificity_score  |->
         IF ScoresParsed(call)
         THEN Clamp(ParseFloat(ScoreFields(call.content)[2])).v
         ELSE DefaultScore]

\* _score_evidence_item: `call` is what the scoring capability did
score_evidence_item(item, call) ==
    [source_url         |-> item.source_url,
     source_credibility |-> SourceCredibility(item),
     relevance_score    |->
         IF ScoresParsed(call)
         THEN Clamp(ParseFloat(ScoreFields(call.content)[1])).v
         ELSE DefaultScore,
     specificity_score  |->
         IF ScoresParsed(call)
         THEN Clamp(ParseFloat(ScoreFields(call.content)[2])).v
         ELSE DefaultScore]

\* responses of the scoring capability: every text of at most three
\* lexemes, and two numerals followed by a third field
ScoringContents ==
    {<< >>} \cup {<<a>> : a \in Lexemes}
            \cup {<<a, b>> : a \in Lexemes, b \in Lexemes}
            \cup {<<a, b, c>> : a \in Lexemes, b \in Lexemes, c \in Lexemes}
            \cup {<<a, ",", b, ",", c>> :
                     a \in DOMAIN NumeralValue, b \in DOMAIN NumeralValue, c \in Lexemes}

ScoringCalls ==
    {[raised |-> TRUE, content |-> << >>]}
    \cup {[raised |-> FALSE, content |-> c] : c \in ScoringContents}

\* the items _extract_evidence_items builds: Tavily's answer, or a result with its url
EvidenceSources ==
    { [type |-> "ai_synthesis",  source_url |-> <<"t", "a", "v", "i", "l", "y", "_", "a", "i", "_", "s", "y", "n", "t", "h", "e", "s", "i", "s">>],
      [type |-> "search_result", source_url |-> <<"h", "t", "t", "p", "s", ":", "/", "/", "s", "e", "c", ".", "g", "o", "v", "/", "c", "g", "i", "-", "b", "i", "n", "/", "b", "r", "o", "w", "s", "e", "-", "e", "d", "g", "a", "r">>],
      [type |-> "search_result", source_url |-> <<"h", "t", "t", "p", "s", ":", "/", "/", "u", "n", "k", "n", "o", "w", "n", "-", "b", "l", "o", "g", ".", "c", "o", "m", "/", "s", "t", "o", "c", "k", "-", "t", "i", "p", "s">>],
      [type |-> "search_result", source_url |-> <<"u", "n", "k", "n", "o", "w", "n">>] }

\* _score_evidence_item(item, anomaly)
ScoreItem ==
    /\ fn.op = "none"
    /\ \E item \in EvidenceSources, call \in ScoringCalls :
          fn' = [op     |-> "score_item",
                 input  |-> item,
                 call   |-> call,
                 result |-> score_evidence_item(item, call)]
    /\ UNCHANGED service

(***************************************************************************)
(* The aggregates, in ten-thousandths (quotients truncated to that unit).  *)
(***************************************************************************)
\* sum(item.source_credibility * item.relevance_score for item in items)
RECURSIVE WeightedSum(_)
WeightedSum(items) ==
    IF items = << >> THEN 0
    ELSE Head(items).source_credibility * Head(items).relevance_score
             + WeightedSum(Tail(items))

\* sum(item.relevance_score for item in items)
RECURSIVE WeightTotal(_)
WeightTotal(items) ==
    IF items = << >> THEN 0
    ELSE Head(items).relevance_score + WeightTotal(Tail(items))

calculate_overall_credibility_DividesByCount(items) ==
    IF items = << >> THEN 0
    ELSE WeightedSum(items) \div Len(items)

\* _calculate_overall_credibility
calculate_overall_credibility(items) ==
    IF items = << >> THEN 0
    ELSE IF WeightTotal(items) > 0
         THEN (WeightedSum(items) * 100) \div WeightTotal(items)
         ELSE 0

\* _calculate_overall_relevance
calculate_overall_relevance(items) ==
    IF items = << >> THEN 0
    ELSE (WeightTotal(items) * 100) \div Len(items)

\* scored items, reduced to the two fields the aggregates read
ScoredItems ==
    [source_credibility : {10, 40, 90, 100}, relevance_score : {0, 50, 100}]

MaxItems == 3

RECURSIVE ItemLists(_)
ItemLists(n) ==
    IF n = 0 THEN {<< >>}
    ELSE ItemLists(n - 1)
         \cup {Append(l, i) : l \in {k \in ItemLists(n - 1) : Len(k) = n - 1},
                              i \in ScoredItems}

\* _calculate_overall_credibility(items) and _calculate_overall_relevance(items)
Aggregate ==
    /\ fn.op = "none"
    /\ \E items \in ItemLists(MaxItems) :
          fn' = [op          |-> "aggregate",
                 input       |-> items,
                 credibility |-> calculate_overall_credibility(items),
                 relevance   |-> calculate_overall_relevance(items)]
    /\ UNCHANGED service

(***************************************************************************)
(* The synthesis step.  The structured call raises, returns nothing usable *)
(* (reading the result's fields raises inside the same try block), or      *)
(* returns a SynthesisResult; its confidence, in hundredths, is carried in *)
(* ten-thousandths like the aggregates.                                    *)
(***************************************************************************)
SynthesisCalls ==
    {[outcome |-> o, result |-> CHOOSE r \in SynthesisResults : TRUE]
        : o \in {"raised", "unusable"}}
    \cup {[outcome |-> "ok", result |-> r] : r \in SynthesisResults}

synthesize_explanation_NoFloor(evidence_items, overall_credibility, overall_relevance, call) ==
    LET found  == overall_credibility > 6500 /\ overall_relevance > 5500
        mean   == (overall_credibility + overall_relevance) \div 2
        capped == IF mean < 8500 THEN mean ELSE 8500
    IN  [evidence_items      |-> evidence_items,
         overall_credibility |-> overall_credibility,
         overall_relevance   |-> overall_relevance,
         explanation_found   |-> IF call.outcome = "ok" THEN call.result.explanation_found ELSE found,
         explanation_quality |-> IF call.outcome = "ok" THEN call.result.explanation_quality
                                 ELSE IF found THEN "fair" ELSE "poor",
         root_cause          |-> IF call.outcome = "ok" THEN "synthesis"
                                 ELSE IF found THEN "Investigation completed but synthesis failed"
                                 ELSE "Unable to determine root cause",
         confidence          |-> IF call.outcome = "ok" THEN call.result.confidence * 100
                                 ELSE IF found THEN capped ELSE (capped * 6) \div 10]

\* _synthesize_explanation
synthesize_explanation(evidence_items, overall_credibility, overall_relevance, call) ==
    IF call.outcome = "ok"
    THEN [evidence_items      |-> evidence_items,
          overall_credibility |-> overall_credibility,
          overall_relevance   |-> overall_relevance,
          explanation_found   |-> call.result.explanation_found,
          explanation_quality |-> call.result.explanation_quality,
          root_cause          |-> "synthesis",
          confidence          |-> call.result.confidence * 100]
    ELSE LET fallback_explanation_found ==
                 overall_credibility > 6500 /\ overall_relevance > 5500
             mean ==
                 (overall_credibility + overall_relevance) \div 2
             capped ==
                 IF mean < 8500 THEN mean ELSE 8500
             reduced ==
                 (capped * 6) \div 10
             fallback_confidence ==
                 IF fallback_explanation_found THEN capped
                 ELSE IF 2500 < reduced THEN reduced ELSE 2500
         IN  [evidence_items      |-> evidence_items,
              overall_credibility |-> overall_credibility,
              overall_relevance   |-> overall_relevance,
              explanation_found   |-> fallback_explanation_found,
              explanation_quality |-> IF fallback_explanation_found THEN "fair" ELSE "poor",
              root_cause          |-> IF fallback_explanation_found
                                      THEN "Investigation completed but synthesis failed"
                                      ELSE "Unable to determine root cause",
              confidence          |-> fallback_confidence]

\* aggregates in [0, 1], with the values around the fallback's thresholds
AggregateValues ==
    {0, 2500, 4166, 5499, 5500, 5501, 6500, 6501, 7000, 8500, 9000, 10000}

\* _synthesize_explanation(anomaly, scored_items, overall_credibility, overall_relevance)
Synthesize ==
    /\ fn.op = "none"
    /\ \E c \in AggregateValues, r \in AggregateValues, call \in SynthesisCalls :
          fn' = [op          |-> "synthesize",
                 credibility |-> c,
                 relevance   |-> r,
                 call        |-> call,
                 result      |-> synthesize_explanation(<< >>, c, r, call)]
    /\ UNCHANGED service

(***************************************************************************)
(* The evaluator with its items kept.  search_results is the sequence of   *)
(* the responses in the order of the dictionary; a response is             *)
(* [answer, results], a result [content, url]; "" is an absent or empty    *)
(* text.  llm_calls counts the invocations of the generative capability:   *)
(* one for each item scored and one for the synthesis.                     *)
(***************************************************************************)
HasContent(res) == res.content # ""

\* the item built from one result (lines 130-135)
ResultItem(res) == [type |-> "search_result", source_url |-> res.url]

RECURSIVE ResultItems(_)
ResultItems(results) ==
    IF results = << >> THEN << >>
    ELSE <<ResultItem(Head(results))>> \o ResultItems(Tail(results))

\* the items of one response (lines 120-135)
ResponseItems(result) ==
    (IF result.answer # ""
     THEN <<[type |-> "ai_synthesis", source_url |-> <<"t", "a", "v", "i", "l", "y", "_", "a", "i", "_", "s", "y", "n", "t", "h", "e", "s", "i", "s">>]>>
     ELSE << >>)
    \o ResultItems(SelectSeq(SubSeq(result.results, 1, ResultsTaken(Len(result.results))),
                             HasContent))

\* _extract_evidence_items
RECURSIVE extract_evidence_items(_)
extract_evidence_items(search_results) ==
    IF search_results = << >> THEN << >>
    ELSE ResponseItems(Head(search_results)) \o extract_evidence_items(Tail(search_results))

\* _create_empty_evaluation
create_empty_evaluation ==
    [evidence_items      |-> << >>,
     overall_credibility |-> 0,
     overall_relevance   |-> 0,
     explanation_found   |-> FALSE,
     explanation_quality |-> "poor",
     root_cause          |-> "No evidence found in search results",
     confidence          |-> 0]

\* lines 89-93: scorings[i] is what the scoring capability did for item i
ScoreItems(evidence_items, scorings) ==
    [i \in 1..Len(evidence_items) |-> score_evidence_item(evidence_items[i], scorings[i])]

evaluate_evidence_scored_NoEarlyReturn(search_results, scorings, synthesis) ==
    LET evidence_items == extract_evidence_items(search_results)
        scored_items   == ScoreItems(evidence_items, scorings)
    IN  [evaluation |-> synthesize_explanation(scored_items,
                                               calculate_overall_credibility(scored_items),
                                               calculate_overall_relevance(scored_items),
                                               synthesis),
         llm_calls  |-> Len(evidence_items) + 1]

\* AdvancedEvidenceEvaluator.evaluate_evidence
evaluate_evidence_scored(search_results, scorings, synthesis) ==
    LET evidence_items == extract_evidence_items(search_results)
        scored_items   == ScoreItems(evidence_items, scorings)
    IN  IF evidence_items = << >>
        THEN [evaluation |-> create_empty_evaluation, llm_calls |-> 0]
        ELSE [evaluation |-> synthesize_explanation(scored_items,
                                                    calculate_overall_credibility(scored_items),
                                                    calculate_overall_relevance(scored_items),
                                                    synthesis),
              llm_calls  |-> Len(evidence_items) + 1]

SecResult == [content |-> "filing", url |-> <<"h", "t", "t", "p", "s", ":", "/", "/", "s", "e", "c", ".", "g", "o", "v", "/", "c", "g", "i", "-", "b", "i", "n", "/", "b", "r", "o", "w", "s", "e", "-", "e", "d", "g", "a", "r">>]

BlogResult == [content |-> "tips", url |-> <<"h", "t", "t", "p", "s", ":", "/", "/", "u", "n", "k", "n", "o", "w", "n", "-", "b", "l", "o", "g", ".", "c", "o", "m", "/", "s", "t", "o", "c", "k", "-", "t", "i", "p", "s">>]

BareResult == [content |-> "", url |-> <<"h", "t", "t", "p", "s", ":", "/", "/", "r", "e", "u", "t", "e", "r", "s", ".", "c", "o", "m", "/", "m", "a", "r", "k", "e", "t", "s">>]

\* what the search step can hand to the evaluator
TavilyResults ==
    { << >>,
      <<[answer |-> "", results |-> << >>]>>,
      <<[answer |-> "", results |-> <<BareResult>>], [answer |-> "", results |-> << >>]>>,
      <<[answer |-> "", results |-> <<BareResult, BareResult, BareResult, SecResult>>]>>,
      <<[answer |-> "cut guidance", results |-> << >>]>>,
      <<[answer |-> "", results |-> <<SecResult, BareResult, BlogResult>>]>>,
      <<[answer |-> "cut guidance", results |-> <<BareResult>>],
        [answer |-> "", results |-> <<BlogResult, SecResult, BareResult, SecResult>>]>> }

\* what the scoring capability does for one item
ItemScorings ==
    { [raised |-> TRUE,  content |-> << >>],
      [raised |-> FALSE, content |-> <<"0.85", ",", "0.5">>],
      [raised |-> FALSE, content |-> <<"nan", ",", "1.5">>] }

\* AdvancedEvidenceEvaluator.evaluate_evidence(anomaly, search_results)
EvaluateEvidence ==
    /\ fn.op = "none"
    /\ \E search_results \in TavilyResults,
          scorings \in [1..MaxItems -> ItemScorings],
          synthesis \in SynthesisCalls :
          fn' = [op     |-> "evaluate",
                 input  |-> search_results,
                 result |-> evaluate_evidence_scored(search_results, scorings, synthesis)]
    /\ UNCHANGED service

(***************************************************************************)
(* The evidence shown to the synthesis: sorted(evidence_items, key =       *)
(* relevance * credibility, reverse=True)[:5].  Python's sort is stable,   *)
(* also with reverse=True: items of equal key keep their order.            *)
(***************************************************************************)
\* lambda x: x.relevance_score * x.source_credibility
SortKey(item) == item.relevance_score * item.source_credibility

\* item put behind the last element of sorted whose key is not smaller
InsertByKey(sorted, item) ==
    LET before == {i \in 1..Len(sorted) : SortKey(sorted[i]) >= SortKey(item)}
    IN  SubSeq(sorted, 1, Cardinality(before)) \o <<item>>
            \o SubSeq(sorted, Cardinality(before) + 1, Len(sorted))

RECURSIVE SortedByKey(_)
SortedByKey(items) ==
    IF items = << >> THEN << >>
    ELSE InsertByKey(SortedByKey(SubSeq(items, 1, Len(items) - 1)), items[Len(items)])

\* the number of items shown (line 243)
SummarySize == 5

evidence_summary_Unsorted(evidence_items) ==
    SubSeq(evidence_items, 1, IF Len(evidence_items) < SummarySize
                              THEN Len(evidence_items) ELSE SummarySize)

\* lines 238-247: the items listed in the prompt
evidence_summary(evidence_items) ==
    SubSeq(SortedByKey(evidence_items), 1,
           IF Len(evidence_items) < SummarySize THEN Len(evidence_items) ELSE SummarySize)

\* scored items with keys 0.9, 0.5 (twice, from different scores) and 0.4
SummaryItems ==
    { [source_credibility |-> 90,  relevance_score |-> 100],
      [source_credibility |-> 100, relevance_score |-> 50],
      [source_credibility |-> 50,  relevance_score |-> 100],
      [source_credibility |-> 40,  relevance_score |-> 100] }

MaxSummaryInput == 6

\* _synthesize_explanation on no item, two items or more than five
SummarizeEvidence ==
    /\ fn.op = "none"
    /\ \E n \in {0, 2, MaxSummaryInput} :
       \E items \in [1..n -> SummaryItems], call \in SynthesisCalls :
          fn' = [op        |-> "summarize",
                 input     |-> items,
                 presented |-> evidence_summary(items),
                 result    |-> synthesize_explanation(items,
                                   calculate_overall_credibility(items),
                                   calculate_overall_relevance(items), call).evidence_items]
    /\ UNCHANGED service

(***************************************************************************)
(* The aggregates as floating-point computations.  Python's float rounds   *)
(* the result of every operation to the nearest value of 53 significant    *)
(* bits, ties to even; here a float has Precision significant decimal      *)
(* digits, and values are counted in ten-thousandths.  sum() adds from the *)
(* left, starting at 0.                                                    *)
(***************************************************************************)
Precision == 2

RECURSIVE Pow10(_)
Pow10(n) == IF n = 0 THEN 1 ELSE 10 * Pow10(n - 1)

\* num / den rounded to the nearest integer, ties to even
RoundHalfEven(num, den) ==
    LET q == num \div den
        r == num % den
    IN  IF 2 * r < den THEN q
        ELSE IF 2 * r > den THEN q + 1
        ELSE IF q % 2 = 0 THEN q ELSE q + 1

\* the distance of neighbouring floats at the magnitude of num / den
Spacing(num, den) ==
    Pow10(CHOOSE k \in 0..6 :
              /\ num \div den < Pow10(Precision + k)
              /\ \A j \in 0..(k - 1) : num \div den >= Pow10(Precision + j))

\* the float nearest to num / den
FloatRound(num, den) ==
    Spacing(num, den) * RoundHalfEven(num, den * Spacing(num, den))

\* a + b, a * b and a / b of two floats
FloatAdd(a, b) == FloatRound(a + b, 1)

FloatMul(a, b) == FloatRound(a * b, 10000)

FloatDiv(a, b) == FloatRound(a * 10000, b)

\* sum(values)
RECURSIVE FloatSum(_)
FloatSum(values) ==
    IF values = << >> THEN 0
    ELSE FloatAdd(FloatSum(SubSeq(values, 1, Len(values) - 1)), values[Len(values)])

\* _calculate_overall_credibility, as computed
float_overall_credibility(items) ==
    LET weighted_sum == FloatSum([i \in 1..Len(items) |->
                            FloatMul(items[i].source_credibility * 100,
                                     items[i].relevance_score * 100)])
        weight_total == FloatSum([i \in 1..Len(items) |-> items[i].relevance_score * 100])
    IN  IF items = << >> THEN 0
        ELSE IF weight_total > 0 THEN FloatDiv(weighted_sum, weight_total) ELSE 0

float_overall_relevance_FirstOnly(items) ==
    IF items = << >> THEN 0 ELSE items[1].relevance_score * 100

\* _calculate_overall_relevance, as computed
float_overall_relevance(items) ==
    IF items = << >> THEN 0
    ELSE FloatDiv(FloatSum([i \in 1..Len(items) |-> items[i].relevance_score * 100]),
                  Len(items) * 10000)

\* the orders of n items
Orders(n) ==
    {p \in [1..n -> 1..n] : \A i \in 1..n : \E j \in 1..n : p[j] = i}

\* scored items whose sums need rounding
PermutedItems ==
    [source_credibility : {40, 85, 100}, relevance_score : {10, 85}]

\* the aggregates of a list of scored items and of the same items in another order
AggregatePermuted ==
    /\ fn.op = "none"
    /\ \E n \in 1..MaxItems :
       \E items \in [1..n -> PermutedItems], p \in Orders(n) :
          LET permuted == [i \in 1..n |-> items[p[i]]]
          IN  fn' = [op       |-> "permute",
                     input    |-> items,
                     permuted |-> permuted,
                     exact    |-> [input    |-> <<calculate_overall_credibility(items),
                                                  calculate_overall_relevance(items)>>,
                                   permuted |-> <<calculate_overall_credibility(permuted),
                                                  calculate_overall_relevance(permuted)>>],
                     computed |-> [input    |-> <<float_overall_credibility(items),
                                                  float_overall_relevance(items)>>,
                                   permuted |-> <<float_overall_credibility(permuted),
                                                  float_overall_relevance(permuted)>>]]
    /\ UNCHANGED service

FnInit == Init /\ max_retries = 3

FnNext ==
    \/ Normalize
    \/ NormalizeAgain
    \/ ScoreSource
    \/ ScoreSourceAgain
    \/ MatchPattern
    \/ ConstructAnomaly
    \/ ScoreItem
    \/ Aggregate
    \/ Synthesize
    \/ EvaluateEvidence
    \/ SummarizeEvidence
    \/ AggregatePermuted
    \/ DetectAnomaly

FnSpec == FnInit /\ [][FnNext]_vars

(***************************************************************************)
(* Two requests served together.  Each request gets its own identifier,    *)
(* registry entry and background task; the task builds its own graph       *)
(* (api.py line 183) and every node builds the objects it uses, so a task  *)
(* works on its own InvestigationState.  The external responses of a task  *)
(* are fixed when it is requested: script[i + 1] is what the capabilities  *)
(* answer in iteration i.  The steps of the two tasks interleave freely.   *)
(***************************************************************************)
TickerOf == [id \in InvestigationIds |-> IF id = InvId THEN <<"M", "S", "F", "T">> ELSE <<"A", "A", "P", "L">>]

\* a strategy call that raises, and one whose responses parse
RaisedStrategyCall ==
    [raised |-> TRUE, queries |-> << >>, earnings |-> [ok |-> FALSE, lines |-> << >>],
     legal |-> [ok |-> FALSE, lines |-> << >>]]

ParsedStrategyCall ==
    [raised |-> FALSE, queries |-> <<QNumberedBold, QSixteen, QQuotedDash>>,
     earnings |-> [ok |-> FALSE, lines |-> << >>],
     legal |-> [ok |-> FALSE, lines |-> << >>]]

\* the external responses of one iteration
IterationResponses ==
    { [gen       |-> RaisedStrategyCall,
       search    |-> [raised |-> TRUE, responses |-> <<EmptyResponse, EmptyResponse, EmptyResponse>>],
       evaluator |-> [raised |-> FALSE,
                      synthesis |-> [explanation_found |-> TRUE, confidence |-> 90,
                                     explanation_quality |-> "excellent"]],
       report    |-> [raised |-> FALSE]],
      [gen       |-> ParsedStrategyCall,
       search    |-> [raised |-> FALSE, responses |-> <<HitResponse, EmptyResponse, EmptyResponse>>],
       evaluator |-> [raised |-> FALSE,
                      synthesis |-> [explanation_found |-> TRUE, confidence |-> 90,
                                     explanation_quality |-> "excellent"]],
       report    |-> [raised |-> FALSE]],
      [gen       |-> ParsedStrategyCall,
       search    |-> [raised |-> FALSE, responses |-> <<HitResponse, HitResponse, HitResponse>>],
       evaluator |-> [raised |-> FALSE,
                      synthesis |-> [explanation_found |-> TRUE, confidence |-> 69,
                                     explanation_quality |-> "fair"]],
       report    |-> [raised |-> TRUE]],
      [gen       |-> RaisedStrategyCall,
       search    |-> [raised |-> FALSE, responses |-> <<HitResponse, HitResponse, HitResponse>>],
       evaluator |-> [raised |-> TRUE,
                      synthesis |-> [explanation_found |-> TRUE, confidence |-> 90,
                                     explanation_quality |-> "excellent"]],
       report    |-> [raised |-> FALSE]] }

RunNode_IncrementClearsResults(run, retries) ==
    LET st  == run.state
        ext == run.script[st.iteration + 1]
        new == IF run.pc = "generate_queries"
               THEN [st EXCEPT !.search_queries = generate_advanced_queries(st, ext.gen)]
               ELSE IF run.pc = "search"
               THEN [st EXCEPT !.search_results = execute_real_search(st, ext.search)]
               ELSE IF run.pc = "evaluate"
               THEN LET result == evaluate_evidence_advanced(st, ext.evaluator, retries)
                    IN  [st EXCEPT
                            !.evidence_evaluation = result.evidence_evaluation,
                            !.investigation_complete = result.investigation_complete]
               ELSE IF run.pc = "increment"
               THEN [st EXCEPT !.iteration = increment_iteration(st),
                               !.search_results = EmptyResults]
               ELSE [st EXCEPT !.final_report = generate_comprehensive_report(st, ext.report)]
    IN  [run EXCEPT
            !.state = new,
            !.pc    = IF run.pc = "evaluate"
                      THEN ConditionalTarget(should_continue_investigation(new))
                      ELSE EdgeTarget(run.pc),
            !.steps = @ + 1]

\* one node execution of a task's graph, with the responses of its script
RunNode(run, retries) ==
    LET st  == run.state
        ext == run.script[st.iteration + 1]
        new == IF run.pc = "generate_queries"
               THEN [st EXCEPT !.search_queries = generate_advanced_queries(st, ext.gen)]
               ELSE IF run.pc = "search"
               THEN [st EXCEPT !.search_results = execute_real_search(st, ext.search)]
               ELSE IF run.pc = "evaluate"
               THEN LET result == evaluate_evidence_advanced(st, ext.evaluator, retries)
                    IN  [st EXCEPT
                            !.evidence_evaluation = result.evidence_evaluation,
                            !.investigation_complete = result.investigation_complete]
               ELSE IF run.pc = "increment"
               THEN [st EXCEPT !.iteration = increment_iteration(st)]
               ELSE [st EXCEPT !.final_report = generate_comprehensive_report(st, ext.report)]
    IN  [run EXCEPT
            !.state = new,
            !.pc    = IF run.pc = "evaluate"
                      THEN ConditionalTarget(should_continue_investigation(new))
                      ELSE EdgeTarget(run.pc),
            !.steps = @ + 1]

\* investigation_app.invoke(...) of a task that runs alone
RECURSIVE Invoke(_, _)
Invoke(run, retries) ==
    IF run.pc \notin Nodes THEN run
    ELSE IF run.steps >= RecursionLimit THEN [run EXCEPT !.pc = "raised"]
    ELSE Invoke(RunNode(run, retries), retries)

\* the task as run_investigation_task starts it
StartedRun(id, script) ==
    [status |-> "running", script |-> script, state |-> InitialState(TickerOf[id]),
     pc |-> "generate_queries", steps |-> 0]

\* the fields the task writes at its end
FinalUpdate(run) ==
    IF run.pc = "raised" THEN FailedUpdate("GraphRecursionError")
    ELSE CompletedUpdate(run.state)

\* the registry entry of a task that ran alone with the responses of script
AloneEntry(id, script, retries) ==
    FinalUpdate(Invoke(StartedRun(id, script), retries))
        @@ InProgressUpdate @@ PendingEntry(id, TickerOf[id])

\* POST /investigate/{ticker}
Request(id) ==
    /\ runs[id].status = "none"
    /\ \E script \in [1..max_retries -> IterationResponses] :
          runs' = [runs EXCEPT ![id] = [IdleRun EXCEPT !.status = "scheduled",
                                                      !.script = script]]
    /\ store' = (id :> PendingEntry(id, TickerOf[id])) @@ store
    /\ UNCHANGED <<max_retries, task, state, pc, steps, executed, gen, evidence_seen, provenance, evaluator_raised, fn, monitor>>

\* run_investigation_task up to the call of invoke
Begin(id) ==
    /\ runs[id].status = "scheduled"
    /\ store' = store_update(store, id, InProgressUpdate)
    /\ runs' = [runs EXCEPT ![id] = StartedRun(id, runs[id].script)]
    /\ UNCHANGED <<max_retries, task, state, pc, steps, executed, gen, evidence_seen, provenance, evaluator_raised, fn, monitor>>

\* one node of the task's graph
Node(id) ==
    /\ runs[id].status = "running"
    /\ runs[id].pc \in Nodes
    /\ runs' = [runs EXCEPT ![id] = IF runs[id].steps >= RecursionLimit
                                    THEN [runs[id] EXCEPT !.pc = "raised"]
                                    ELSE RunNode(runs[id], max_retries)]
    /\ UNCHANGED <<max_retries, store, task, state, pc, steps, executed, gen, evidence_seen, provenance, evaluator_raised, fn, monitor>>

\* run_investigation_task after invoke returned or raised
Finish(id) ==
    /\ runs[id].status = "running"
    /\ runs[id].pc \notin Nodes
    /\ store' = store_update(store, id, FinalUpdate(runs[id]))
    /\ runs' = [runs EXCEPT ![id].status = "done"]
    /\ UNCHANGED <<max_retries, task, state, pc, steps, executed, gen, evidence_seen, provenance, evaluator_raised, fn, monitor>>

PairInit == Init /\ max_retries = 2

PairNext ==
    \E id \in InvestigationIds :
        \/ Request(id)
        \/ Begin(id)
        \/ Node(id)
        \/ Finish(id)

PairSpec == PairInit /\ [][PairNext]_vars

(***************************************************************************)
(* The production monitor: one cycle of run_production_monitor over a      *)
(* watchlist.  The graph executes fetch_next, detect and investigate; a    *)
(* node returns the keys it changes, which the graph merges into the       *)
(* MonitoringState.                                                        *)
(***************************************************************************)
\* fetch_next_ticker_node
fetch_next_ticker_node(st) ==
    IF st.current_index >= Len(st.watchlist)
    THEN [should_continue |-> FALSE, current_ticker |-> 0]
    ELSE [current_ticker |-> st.watchlist[st.current_index + 1], should_continue |-> TRUE]

\* detect_anomaly_node, with what check_for_anomaly returned
detect_anomaly_node(st, anomaly) ==
    [anomaly_detected |-> anomaly, current_index |-> st.current_index + 1]

\* investigate_anomaly_node: the investigation returns or raises inside try,
\* and the node returns {}
investigate_anomaly_node(st, raised) == [key \in {} |-> raised]

\* should_investigate and the mapping of its conditional edge
should_investigate(st) == IF st.anomaly_detected THEN "investigate" ELSE "fetch_next"

\* should_continue_monitoring and the mapping of its conditional edge
should_continue_monitoring(st) == IF st.should_continue THEN "detect" ELSE "END"

MonitorNodes == {"fetch_next", "detect", "investigate"}

\* watchlists of up to MaxWatchlist tickers, and two long ones: with an
\* anomaly for every ticker a cycle executes 3 nodes for each ticker and
\* fetch_next once more
MaxWatchlist == 3

WatchlistLengths == (0..MaxWatchlist) \cup {32, 34}

\* run_production_monitor(watchlist, continuous=False) up to invoke
RunMonitor ==
    /\ monitor.status = "none"
    /\ \E n \in WatchlistLengths :
          monitor' = [IdleMonitor EXCEPT !.status = "running",
                                         !.state = MonitoringState([i \in 1..n |-> i]),
                                         !.pc = "fetch_next"]
    /\ UNCHANGED <<investigation, fn>>

MonitorRuns(node) ==
    /\ monitor.status = "running"
    /\ monitor.pc = node
    /\ monitor.steps < MonitorRecursionLimit

FetchNext ==
    /\ MonitorRuns("fetch_next")
    /\ LET new == fetch_next_ticker_node(monitor.state) @@ monitor.state
       IN  monitor' = [monitor EXCEPT !.state = new,
                                      !.pc = should_continue_monitoring(new),
                                      !.steps = @ + 1]
    /\ UNCHANGED <<investigation, fn>>

Detect ==
    /\ MonitorRuns("detect")
    /\ \E anomaly \in BOOLEAN :
          LET new == detect_anomaly_node(monitor.state, anomaly) @@ monitor.state
          IN  monitor' = [monitor EXCEPT !.state = new,
                                         !.pc = should_investigate(new),
                                         !.steps = @ + 1,
                                         !.checked = Append(@, monitor.state.current_ticker)]
    /\ UNCHANGED <<investigation, fn>>

Investigate ==
    /\ MonitorRuns("investigate")
    /\ \E raised \in BOOLEAN :
          monitor' = [monitor EXCEPT
                         !.state = investigate_anomaly_node(monitor.state, raised) @@ @,
                         !.pc = "fetch_next",
                         !.steps = @ + 1,
                         !.failed = @ \/ raised]
    /\ UNCHANGED <<investigation, fn>>

\* invoke raises GraphRecursionError; run_production_monitor logs it
MonitorLimitReached ==
    /\ monitor.status = "running"
    /\ monitor.pc \in MonitorNodes
    /\ monitor.steps >= MonitorRecursionLimit
    /\ monitor' = [monitor EXCEPT !.pc = "raised", !.status = "done"]
    /\ UNCHANGED <<investigation, fn>>

\* invoke returned
MonitorComplete ==
    /\ monitor.status = "running"
    /\ monitor.pc = "END"
    /\ monitor' = [monitor EXCEPT !.status = "done"]
    /\ UNCHANGED <<investigation, fn>>

MonitorInit == Init /\ max_retries = 3

MonitorNext ==
    \/ RunMonitor
    \/ FetchNext
    \/ Detect
    \/ Investigate
    \/ MonitorLimitReached
    \/ MonitorComplete

MonitorSpec == MonitorInit /\ [][MonitorNext]_vars

(***************************************************************************)
(* Properties.                                                             *)
(***************************************************************************)
Started == InvId \in DOMAIN store

Entry == store[InvId]

Evaluation == state.evidence_evaluation

HasVerdict == Started /\ "explanation_found" \in DOMAIN Entry

HasError == Started /\ "error" \in DOMAIN Entry

NodeRan(node) == executed'[node] = executed[node] + 1

\* C1: after the evaluate step at iteration i the graph goes to report iff
\* (explanation_found and confidence >= 0.7) or i >= max_retries - 1, and to
\* increment otherwise; increment adds exactly 1 to iteration, returns to
\* generate_queries and keeps the evaluation; report leaves iteration alone,
\* so an evaluation accepted at iteration 0 ends the run with iteration 0.
C1_TransitionRule ==
    [][ /\ NodeRan("evaluate") =>
              /\ pc' = IF \/ /\ state'.evidence_evaluation.explanation_found
                              /\ state'.evidence_evaluation.confidence >= 70
                           \/ state.iteration >= max_retries - 1
                       THEN "report" ELSE "increment"
              /\ state'.iteration = state.iteration
        /\ NodeRan("increment") =>
              /\ state'.iteration = state.iteration + 1
              /\ pc' = "generate_queries"
              /\ state'.evidence_evaluation = state.evidence_evaluation
        /\ NodeRan("report") =>
              /\ state'.iteration = state.iteration
              /\ pc' = "END"
      ]_vars

\* an explanation found with confidence 0.69 at iteration 0 of 3 is retried
C1_Witness ==
    /\ pc = "increment"
    /\ max_retries = 3
    /\ state.iteration = 0
    /\ Evaluation.explanation_found
    /\ Evaluation.confidence = 69

\* C2: for every max_retries >= 1 a run ends after at most max_retries
\* evaluate steps (and as many generate steps); with max_retries = 3 and no
\* explanation found it ends with iteration 2 after exactly 3 attempts.
C2_BoundedAttempts ==
    /\ [](/\ executed["evaluate"] <= max_retries
          /\ executed["generate_queries"] <= max_retries)
    /\ [](task.status = "running" => <>(task.status = "done"))
    /\ []((max_retries = 3 /\ pc = "END" /\ ~Evaluation.explanation_found) =>
             /\ state.iteration = 2
             /\ executed["evaluate"] = 3
             /\ executed["generate_queries"] = 3)

C2_Witness ==
    /\ max_retries = 3
    /\ task.status = "done"
    /\ pc = "END"
    /\ ~Evaluation.explanation_found
    /\ executed["evaluate"] = 3

\* C3: iteration never exceeds max_retries; it starts at 0 and changes only
\* by the +1 of the increment step.
C3_IterationBounded ==
    /\ [](state.iteration >= 0 /\ state.iteration <= max_retries)
    /\ [][state'.iteration # state.iteration =>
              /\ NodeRan("increment")
              /\ state'.iteration = state.iteration + 1]_vars

C3_Witness ==
    /\ max_retries = 3
    /\ state.iteration = 2
    /\ executed["increment"] = 2

\* C4: once investigation_complete is true no later step of the run sets it
\* back to false.
C4_CompletionSticky ==
    [][state.investigation_complete => state'.investigation_complete]_vars

\* a run accepted before its last iteration, followed through to its end
C4_Witness ==
    /\ state.investigation_complete
    /\ state.iteration < max_retries - 1
    /\ task.status = "done"
    /\ pc = "END"

\* C5: one invoke makes at most 50 node executions whatever max_retries is;
\* a run that needs more is aborted: its entry is 'failed' with an error
\* field and no verdict, and an entry is 'completed' only when the graph ended.
C5_StepCeiling ==
    /\ steps <= 50
    /\ pc = "raised" => steps = 50
    /\ (task.status = "done" /\ pc = "raised") =>
           /\ Entry.status = "failed"
           /\ HasError
           /\ ~HasVerdict
    /\ (Started /\ Entry.status = "completed") =>
           /\ pc = "END"
           /\ ~HasError

C5_Witness ==
    /\ task.status = "done"
    /\ pc = "raised"
    /\ steps = 50
    /\ Entry.status = "failed"

Solved ==
    /\ HasVerdict
    /\ Entry.status = "completed"
    /\ Entry.explanation_found
    /\ "confidence" \in DOMAIN Entry

Unsolved ==
    /\ HasVerdict
    /\ Entry.status = "completed"
    /\ ~Entry.explanation_found
    /\ "confidence" \in DOMAIN Entry
    /\ "iterations" \in DOMAIN Entry

Aborted ==
    /\ HasError
    /\ Entry.status = "failed"

\* C6: every started investigation eventually ends as solved (with a
\* confidence), unsolved (after N iterations, with a confidence) or aborted;
\* an entry never shows two outcomes and an ended entry no longer changes.
C6_OneOutcome ==
    /\ Started ~> (Solved \/ Unsolved \/ Aborted)
    /\ [](~(HasVerdict /\ HasError))
    /\ [][(Solved \/ Unsolved \/ Aborted) => store' = store]_vars

C6_Witness ==
    /\ Unsolved
    /\ Entry.iterations = 3
    /\ Entry.confidence = 90

\* C7: the iterations recorded for a completed run are the final iteration
\* index + 1, which is the number of evaluations made (1 when the first is
\* accepted with found and 0.8; 3 when max_retries = 3 and nothing is
\* found), the report is handed the same number, and the status is SOLVED
\* exactly when the last evaluation has explanation_found.
C7_IterationsUsed ==
    (Started /\ Entry.status = "completed") =>
        /\ Entry.iterations = state.iteration + 1
        /\ Entry.iterations = executed["evaluate"]
        /\ Entry.explanation_found = Evaluation.explanation_found
        /\ Entry.report.kind = "report" =>
               /\ Entry.report.iterations = Entry.iterations
               /\ Entry.report.status =
                      IF Evaluation.explanation_found THEN "SOLVED" ELSE "UNSOLVED"
        /\ (max_retries = 3 /\ ~Evaluation.explanation_found) => Entry.iterations = 3

C7_Witness ==
    /\ Started
    /\ Entry.status = "completed"
    /\ Evaluation.explanation_found
    /\ Evaluation.confidence = 80
    /\ executed["evaluate"] = 1
    /\ Entry.iterations = 1
    /\ Entry.report.status = "SOLVED"

\* C8: the report step runs only with investigation_complete true, at most
\* once, exactly once in a run whose graph ended, and once it has run no
\* node runs again.
C8_ReportOnce ==
    /\ [](pc = "report" => state.investigation_complete)
    /\ [](executed["report"] <= 1)
    /\ [](pc = "END" => executed["report"] = 1)
    /\ [][executed["report"] >= 1 => executed' = executed]_vars

C8_Witness ==
    /\ task.status = "done"
    /\ pc = "END"
    /\ executed["report"] = 1
    /\ executed["increment"] = 2

\* C9: after every generate step search_queries holds exactly 3 queries,
\* each of 16 to 250 characters.
C9_ThreeQueries ==
    executed["generate_queries"] >= 1 =>
        /\ Len(state.search_queries) = 3
        /\ \A i \in 1..Len(state.search_queries) :
               /\ Len(state.search_queries[i]) >= 16
               /\ Len(state.search_queries[i]) <= 250

\* a query cut to exactly 250 characters beside a padding query
C9_Witness ==
    /\ pc = "search"
    /\ ~gen.raised
    /\ \E i \in 1..Len(state.search_queries) : Len(state.search_queries[i]) = 250
    /\ \E i \in 1..Len(state.search_queries) :
           state.search_queries[i] = state.anomaly \o <<" ", "s", "t", "o", "c", "k", " ", "d", "r", "o", "p", " ", "N", "o", "v", "e", "m", "b", "e", "r", " ", "2", "0", "2", "5">>

\* C10: when the selected strategy raises, the generate step sets
\* search_queries to the fixed fallback triple, whatever the state held, and
\* the graph goes on to search.
C10_FallbackOnException ==
    [][(NodeRan("generate_queries") /\ gen'.raised) =>
           /\ state'.search_queries =
                  << state.anomaly \o <<" ", "e", "a", "r", "n", "i", "n", "g", "s", " ", "r", "e", "p", "o", "r", "t", " ", "N", "o", "v", "e", "m", "b", "e", "r", " ", "2", "0", "2", "5">>,
                     state.anomaly \o <<" ", "S", "E", "C", " ", "f", "i", "l", "i", "n", "g", " ", "N", "o", "v", "e", "m", "b", "e", "r", " ", "2", "0", "2", "5">>,
                     state.anomaly \o <<" ", "a", "n", "a", "l", "y", "s", "t", " ", "r", "a", "t", "i", "n", "g", " ", "N", "o", "v", "e", "m", "b", "e", "r", " ", "2", "0", "2", "5">> >>
           /\ pc' = "search"
           /\ task'.status = "running"]_vars

\* the meta strategy raised at iteration 2 and the search step ran after it
C10_Witness ==
    /\ gen.raised
    /\ gen.strategy = "meta"
    /\ state.iteration = 2
    /\ pc = "evaluate"

\* the order of escalation of the strategies
StrategyRank(strategy) ==
    CASE strategy = "none"    -> 0
      [] strategy = "cot"     -> 1
      [] strategy = "experts" -> 2
      [] strategy = "meta"    -> 3

\* C11: the strategy a generate step runs is fixed by the iteration index:
\* chain-of-thought at 0, multi-expert at 1, meta-optimization at every
\* iteration >= 2; over a run no earlier strategy follows a later one.
C11_StrategyByIteration ==
    /\ [][NodeRan("generate_queries") =>
              gen'.strategy = IF state.iteration = 0 THEN "cot"
                              ELSE IF state.iteration = 1 THEN "experts"
                              ELSE "meta"]_vars
    /\ [][StrategyRank(gen'.strategy) >= StrategyRank(gen.strategy)]_vars

\* the meta strategy ran a second time, at iteration 3
C11_Witness ==
    /\ gen.strategy = "meta"
    /\ state.iteration = 3
    /\ executed["generate_queries"] = 4
    /\ pc = "search"

\* C12: at an iteration >= 2, when the meta-optimization response yields no
\* usable query, search_queries after the generate step equals
\* search_queries before it.
C12_MetaKeepsPrevious ==
    [][(/\ NodeRan("generate_queries")
        /\ state.iteration >= 2
        /\ ~gen'.raised
        /\ ~gen'.improved) => state'.search_queries = state.search_queries]_vars

\* C13: validate_and_truncate_queries applied to its own output returns
\* that output, for every input list.
C13_Idempotent ==
    (fn.op = "normalize" /\ fn.applied = 2) => fn.output = fn.first

\* nothing the extraction keeps: no answer, and no content in the first
\* three results of any response
NoExtractableEvidence(search_results) ==
    \A i \in 1..Len(search_results) :
        /\ search_results[i].answer = ""
        /\ \A j \in 1..Len(search_results[i].results) :
               j <= 3 => search_results[i].results[j].content = ""

\* C14: when the search results hold no extractable evidence the evaluator
\* returns the fixed empty evaluation (no items, credibility 0, relevance 0,
\* confidence 0, not found, quality poor) and makes no call to the
\* generative capability, neither for scoring nor for synthesis.
C14_EmptyEvaluationNoCalls ==
    (fn.op = "evaluate" /\ NoExtractableEvidence(fn.input)) =>
        /\ fn.result.evaluation.evidence_items = << >>
        /\ fn.result.evaluation.overall_credibility = 0
        /\ fn.result.evaluation.overall_relevance = 0
        /\ fn.result.evaluation.confidence = 0
        /\ ~fn.result.evaluation.explanation_found
        /\ fn.result.evaluation.explanation_quality = "poor"
        /\ fn.result.llm_calls = 0

C14_Witness ==
    /\ fn.op = "evaluate"
    /\ Len(fn.input) = 1
    /\ Len(fn.input[1].results) = 4
    /\ NoExtractableEvidence(fn.input)
    /\ fn.result.llm_calls = 0
    /\ fn.result.evaluation.explanation_quality = "poor"

\* C15: when the synthesis call raises or returns nothing usable the
\* evaluator answers with the fallback: found iff credibility > 0.65 and
\* relevance > 0.55; confidence min(0.85, mean of the two), times 0.6 and
\* floored at 0.25 when not found; quality fair when found, poor otherwise;
\* the confidence lies in [0.25, 0.85].
C15_SynthesisFallback ==
    (fn.op = "synthesize" /\ fn.call.outcome # "ok") =>
        LET found   == fn.credibility > 6500 /\ fn.relevance > 5500
            mean    == (fn.credibility + fn.relevance) \div 2
            capped  == IF mean < 8500 THEN mean ELSE 8500
            reduced == (capped * 6) \div 10
        IN  /\ fn.result.explanation_found = found
            /\ fn.result.confidence =
                   IF found THEN capped
                   ELSE IF reduced > 2500 THEN reduced ELSE 2500
            /\ fn.result.explanation_quality = IF found THEN "fair" ELSE "poor"
            /\ fn.result.confidence \in 2500..8500
            /\ fn.result.overall_credibility = fn.credibility
            /\ fn.result.overall_relevance = fn.relevance

C15_Witness ==
    /\ fn.op = "synthesize"
    /\ fn.call.outcome = "raised"
    /\ fn.credibility = 0
    /\ fn.relevance = 0
    /\ fn.result.confidence = 2500
    /\ ~fn.result.explanation_found

HasWeight(item) == item.relevance_score > 0

\* C16: overall credibility is sum(credibility_i * relevance_i) /
\* sum(relevance_i) (to the ten-thousandth), 0 when the relevance sum is 0,
\* and unchanged when the items of relevance 0 are left out; relevance
\* [1.0, 0.0] with credibility [0.9, 0.1] gives 0.9.
C16_WeightedCredibility ==
    fn.op = "aggregate" =>
        /\ WeightTotal(fn.input) = 0 => fn.credibility = 0
        /\ WeightTotal(fn.input) > 0 =>
               /\ fn.credibility * WeightTotal(fn.input) <= WeightedSum(fn.input) * 100
               /\ WeightedSum(fn.input) * 100 < (fn.credibility + 1) * WeightTotal(fn.input)
        /\ fn.credibility = calculate_overall_credibility(SelectSeq(fn.input, HasWeight))
        /\ fn.credibility \in 0..10000
        /\ fn.input = <<[source_credibility |-> 90, relevance_score |-> 100],
                        [source_credibility |-> 10, relevance_score |-> 0]>>
               => fn.credibility = 9000

C16_Witness ==
    /\ fn.op = "aggregate"
    /\ fn.input = <<[source_credibility |-> 90, relevance_score |-> 100],
                    [source_credibility |-> 10, relevance_score |-> 0]>>
    /\ fn.credibility = 9000

\* C17: whatever the scoring capability does (it raises, or returns text
\* that is not two numbers, or numbers out of range), the scorer returns an
\* item whose relevance and specificity are in [0,1]; when the call or the
\* parse of either number fails both are 0.5, and otherwise they are the two
\* numbers clamped.
C17_ScorerContained ==
    fn.op = "score_item" =>
        /\ fn.result.relevance_score \in 0..100
        /\ fn.result.specificity_score \in 0..100
        /\ fn.result.source_credibility \in 0..100
        /\ fn.result.source_url = fn.input.source_url
        /\ ~ScoresParsed(fn.call) =>
               /\ fn.result.relevance_score = 50
               /\ fn.result.specificity_score = 50
        /\ (~fn.call.raised /\ fn.call.content = <<"0.85", ",", "abc">>) =>
               /\ fn.result.relevance_score = 50
               /\ fn.result.specificity_score = 50
        /\ (~fn.call.raised /\ fn.call.content = <<"0.85">>) =>
               /\ fn.result.relevance_score = 50
               /\ fn.result.specificity_score = 50
        /\ (~fn.call.raised /\ fn.call.content = <<"1.5", ",", "-0.2">>) =>
               /\ fn.result.relevance_score = 100
               /\ fn.result.specificity_score = 0
        /\ (~fn.call.raised /\ fn.call.content = <<"0.85", ",", "0.5", ",", "abc">>) =>
               /\ fn.result.relevance_score = 85
               /\ fn.result.specificity_score = 50

\* the first number parses and the second does not
C17_Witness ==
    /\ fn.op = "score_item"
    /\ ~fn.call.raised
    /\ fn.call.content = <<"0.85", ",", "abc">>
    /\ fn.input.type = "search_result"
    /\ fn.result.relevance_score = 50
    /\ fn.result.specificity_score = 50

\* the state holds no evidence: no results, or responses without answer and results
NoEvidence(search_results) == ExtractEvidenceItems(search_results) = 0

\* a whole run of max_retries iterations fits under the ceiling on node executions
FitsCeiling == 4 * max_retries <= RecursionLimit

\* C18 as stated: when the search returns nothing at every iteration the run
\* ends unsolved after exactly max_retries iterations with confidence 0.
C18_AlwaysEndsUnsolved ==
    (task.status = "done" /\ ~evidence_seen) =>
        /\ Unsolved
        /\ Entry.iterations = max_retries
        /\ Entry.confidence = 0

\* C18: a failed or empty search does not raise: the search step only
\* replaces search_results and goes on to evaluate; the evaluation of
\* results without evidence is empty (not found, confidence 0, quality
\* poor, no items) and the run proceeds by the normal transition rule;
\* when no search of a run returns anything the run ends unsolved after
\* exactly max_retries iterations with confidence 0 if max_retries
\* iterations fit under the ceiling on node executions, and is aborted
\* otherwise.
C18_EmptySearch ==
    /\ [][ /\ NodeRan("search") =>
                 /\ pc' = "evaluate"
                 /\ state' = [state EXCEPT !.search_results = state'.search_results]
           /\ (NodeRan("evaluate") /\ NoEvidence(state.search_results)) =>
                 /\ ~state'.evidence_evaluation.explanation_found
                 /\ state'.evidence_evaluation.confidence = 0
                 /\ state'.evidence_evaluation.explanation_quality = "poor"
                 /\ state'.evidence_evaluation.evidence_items = 0
                 /\ pc' = IF state.iteration >= max_retries - 1
                          THEN "report" ELSE "increment"
         ]_vars
    /\ []((task.status = "done" /\ ~evidence_seen) =>
             IF FitsCeiling
             THEN /\ Unsolved
                  /\ Entry.iterations = max_retries
                  /\ Entry.confidence = 0
             ELSE Aborted)

\* three iterations whose searches returned nothing, the last one failing
C18_Witness ==
    /\ task.status = "done"
    /\ ~evidence_seen
    /\ max_retries = 3
    /\ state.search_results = EmptyResults
    /\ executed["search"] = 3
    /\ Unsolved
    /\ Entry.iterations = 3
    /\ Entry.confidence = 0

\* the degraded report of the report step's except branch
ReportFailed(report) == report.kind = "failed"

\* C19: when rendering or saving the report fails the report step does not
\* raise: it sets final_report to the degraded text naming the failure
\* (and to the rendered report otherwise), changes nothing else in the
\* state, the evaluation included, and goes to the end; the run is then
\* recorded as completed with the verdict of the evaluation, never as
\* failed.
C19_ReportFailureContained ==
    /\ [][ NodeRan("report") =>
              /\ pc' = "END"
              /\ state'.final_report.kind \in {"report", "failed"}
              /\ state' = [state EXCEPT !.final_report = state'.final_report]
              /\ state'.evidence_evaluation = state.evidence_evaluation
         ]_vars
    /\ []((task.status = "done" /\ ReportFailed(state.final_report)) =>
             /\ Entry.status = "completed"
             /\ ~HasError
             /\ ReportFailed(Entry.report)
             /\ Entry.explanation_found = Evaluation.explanation_found
             /\ Entry.confidence = Evaluation.confidence
             /\ Entry.iterations = state.iteration + 1)

\* a solved run whose report could not be rendered
C19_Witness ==
    /\ task.status = "done"
    /\ ReportFailed(state.final_report)
    /\ Entry.status = "completed"
    /\ ReportFailed(Entry.report)
    /\ Entry.explanation_found
    /\ Entry.confidence = 90

OccurrencesFrom(domain, part, from) ==
    {i \in from..(Len(domain) - Len(part) + 1) : SubSeq(domain, i, i + Len(part) - 1) = part}

\* domain holds the parts in their order, with at least one character
\* between two consecutive parts
RECURSIVE InOrder(_, _, _)
InOrder(domain, parts, from) ==
    IF parts = << >> THEN TRUE
    ELSE \E i \in OccurrencesFrom(domain, Head(parts), from) :
             Tail(parts) = << >> \/ InOrder(domain, Tail(parts), i + Len(Head(parts)) + 1)

\* C21: a wildcard pattern matches a domain only if the domain holds the
\* pattern's segments in pattern order with a non-empty text in the place
\* of '*'.
C21_WildcardInOrder ==
    (fn.op = "match" /\ Contains(fn.pattern, <<"*">>) /\ fn.result) =>
        InOrder(fn.domain, SplitStar(fn.pattern), 1)

\* C22: constructing an anomaly succeeds only when the magnitude of the
\* price change is at least the configured anomaly_threshold, for every
\* value of the threshold.
C22_ThresholdEnforced ==
    (fn.op = "construct" /\ fn.result.constructed) =>
        Abs(fn.input) >= fn.anomaly_threshold

\* the other request
Other(id) == CHOOSE other \in InvestigationIds : other # id

\* C23: two investigations whose steps interleave share only the registry:
\* a step of one leaves the other's task, state and registry entry as they
\* are, an entry carries its own identifier and ticker, a task works on its
\* own anomaly, and the entry of an ended task is the entry the task
\* produces when it runs alone with the same external responses.
C23_Isolation ==
    /\ [][\E id \in InvestigationIds :
              /\ runs'[Other(id)] = runs[Other(id)]
              /\ Other(id) \in DOMAIN store =>
                     /\ Other(id) \in DOMAIN store'
                     /\ store'[Other(id)] = store[Other(id)]
              /\ Other(id) \notin DOMAIN store => Other(id) \notin DOMAIN store'
         ]_vars
    /\ [](\A id \in InvestigationIds :
             /\ id \in DOMAIN store =>
                    /\ store[id].investigation_id = id
                    /\ store[id].ticker = TickerOf[id]
             /\ runs[id].status \in {"running", "done"} =>
                    runs[id].state.anomaly = TickerOf[id]
             /\ runs[id].status = "done" =>
                    store[id] = AloneEntry(id, runs[id].script, max_retries))

\* the first task has ended solved while the second, retrying with other
\* responses, is between two iterations
C23_Witness ==
    /\ runs["inv-1"].status = "done"
    /\ store["inv-1"].status = "completed"
    /\ store["inv-1"].explanation_found
    /\ store["inv-1"].iterations = 1
    /\ runs["inv-2"].status = "running"
    /\ runs["inv-2"].pc = "increment"
    /\ ~runs["inv-2"].state.evidence_evaluation.explanation_found
    /\ store["inv-2"].status = "in_progress"

\* C24 as stated: a field of a registry entry that has been written is
\* never overwritten with a different value.
C24_WriteOncePerField ==
    [][Started => \A f \in DOMAIN Entry : Entry'[f] = Entry[f]]_vars

\* the changes of status the service makes
StatusChanges ==
    {<<"pending", "in_progress">>, <<"in_progress", "completed">>, <<"in_progress", "failed">>}

\* C24: every field of a registry entry other than status and updated_at
\* is assigned at most once and never overwritten; status only advances
\* pending -> in_progress -> completed or failed, and updated_at is
\* rewritten with these changes of status only.
C24_WriteOnceButStatus ==
    [][Started =>
          /\ DOMAIN Entry \subseteq DOMAIN Entry'
          /\ \A f \in DOMAIN Entry \ {"status", "updated_at"} : Entry'[f] = Entry[f]
          /\ \/ Entry' = Entry
             \/ <<Entry.status, Entry'.status>> \in StatusChanges
      ]_vars

\* an entry that went through the three writes
C24_Witness ==
    /\ Started
    /\ Entry.status = "completed"
    /\ Entry.updated_at = Now("end")
    /\ Entry.created_at = Now("request")
    /\ Entry.iterations = 2

\* C25: the state accumulates the search results keyed by query: after a
\* search step the results of the queries of the earlier iterations are
\* still in the state.
C25_ResultsAccumulate ==
    [][NodeRan("search") =>
          DOMAIN state.search_results \subseteq DOMAIN state'.search_results]_vars

\* the four grades of explanation_quality
Qualities == {"excellent", "good", "fair", "poor"}

\* C26: every evaluation the controller stores has explanation_quality in
\* {excellent, good, fair, poor} and confidence in [0,1].
C26_EvaluationWellFormed ==
    Evaluation # NoEvaluation =>
        /\ Evaluation.explanation_quality \in Qualities
        /\ Evaluation.confidence \in 0..100

\* a character that opens an enumeration, or separates it from the text
EnumerationMarks == Digits \cup LeadingMarkers \cup {".", ")", ":"}

QuoteMarks == {"\"", "'"}

\* C27: every query the normalization accepts holds no '*', does not begin
\* with an enumeration marker (digit, dash, bullet) or its separating
\* punctuation, and is not wrapped in quote characters.
C27_NoArtifacts ==
    (fn.op = "normalize" /\ fn.applied = 1) =>
        \A i \in 1..Len(fn.output) :
            /\ \A k \in 1..Len(fn.output[i]) : fn.output[i][k] # "*"
            /\ fn.output[i][1] \notin EnumerationMarks
            /\ ~(/\ fn.output[i][1] \in QuoteMarks
                 /\ fn.output[i][Len(fn.output[i])] \in QuoteMarks)

\* a query after the cleaning and the truncation, before the length test
Normalized(query, max_length) ==
    Truncate(RemoveQuotes(RemoveLeading(RemoveMarkdown(query))), max_length)

\* C28: a normalized query is rejected exactly when its length is outside
\* [15,250]; a normalized query of exactly 15 characters is kept.
C28_RejectedOutsideRange ==
    (fn.op = "normalize" /\ fn.applied = 1) =>
        \A i \in 1..Len(fn.input) :
            (Normalized(fn.input[i], MaxQueryLen) \in Range(fn.output))
                <=> (Len(Normalized(fn.input[i], MaxQueryLen)) \in 15..250)

\* how often item occurs in items
Count(items, item) == Cardinality({i \in 1..Len(items) : items[i] = item})

\* C29: the evidence shown to the synthesis is at most 5 items, taken from
\* the scored items, in non-increasing order of credibility * relevance,
\* and every scored item with a larger product than a shown one is shown;
\* the evaluation's evidence_items holds every scored item.
C29_TopFivePresented ==
    fn.op = "summarize" =>
        /\ Len(fn.presented) = IF Len(fn.input) < 5 THEN Len(fn.input) ELSE 5
        /\ \A i \in 1..Len(fn.presented) : \A j \in i..Len(fn.presented) :
               fn.presented[i].source_credibility * fn.presented[i].relevance_score
                   >= fn.presented[j].source_credibility * fn.presented[j].relevance_score
        /\ \A i \in 1..Len(fn.presented) :
               Count(fn.presented, fn.presented[i]) <= Count(fn.input, fn.presented[i])
        /\ \A i \in 1..Len(fn.input) : \A j \in 1..Len(fn.presented) :
               fn.input[i].source_credibility * fn.input[i].relevance_score
                   > fn.presented[j].source_credibility * fn.presented[j].relevance_score
               => Count(fn.presented, fn.input[i]) = Count(fn.input, fn.input[i])
        /\ fn.result = fn.input

\* six items, the best one last: it is shown first and the worst is left out
C29_Witness ==
    /\ fn.op = "summarize"
    /\ Len(fn.input) = 6
    /\ Len(fn.presented) = 5
    /\ fn.input[6] = [source_credibility |-> 90, relevance_score |-> 100]
    /\ fn.input[1] = [source_credibility |-> 40, relevance_score |-> 100]
    /\ fn.presented[1] = fn.input[6]
    /\ Count(fn.presented, fn.input[1]) = 0
    /\ fn.result = fn.input

WithinRounding(a, b, count) ==
    Abs(a - b) * Pow10(Precision - 1) <= count * (IF a > b THEN a ELSE b)

C31_SameIteration ==
    [][ /\ (task.status = "scheduled" /\ task'.status = "running") =>
              /\ pc' = "generate_queries"
              /\ state'.iteration = 0
        /\ NodeRan("generate_queries") =>
              /\ pc' = "search"
              /\ state'.iteration = state.iteration
        /\ NodeRan("search") =>
              /\ pc' = "evaluate"
              /\ state'.iteration = state.iteration
              /\ provenance.queries = state.iteration
              /\ state'.search_queries = state.search_queries
        /\ NodeRan("evaluate") =>
              /\ provenance.queries = state.iteration
              /\ provenance.results = state.iteration
              /\ DOMAIN state.search_results \subseteq Range(state.search_queries)
              /\ state'.evidence_evaluation.evidence_items
                    \in {0, ExtractEvidenceItems(state.search_results)}
      ]_vars

\* the second iteration has evaluated evidence for its own queries
C31_Witness ==
    /\ state.iteration = 1
    /\ pc \in {"increment", "report"}
    /\ provenance = [queries |-> 1, results |-> 1]
    /\ Evaluation.evidence_items > 0
    /\ DOMAIN state.search_results = Range(state.search_queries)

\* the order of the tiers: official > premium press > mainstream press >
\* aggregator > social > unknown
TierRank(tier) ==
    CASE tier = "tier_1_official"   -> 5
      [] tier = "tier_2_premium"    -> 4
      [] tier = "tier_3_mainstream" -> 3
      [] tier = "tier_4_aggregator" -> 2
      [] tier = "tier_5_social"     -> 1
      [] tier = "tier_unknown"      -> 0

\* C32: a source classified in a higher tier never receives a lower score
\* than a source classified in a lower tier, the unknown tier included.
C32_ScoresRespectTiers ==
    fn.op = "score_source" =>
        \A url \in Urls :
            TierRank(fn.result.tier) > TierRank(score_source(url).tier) =>
                fn.result.credibility_score >= score_source(url).credibility_score

\* C33: when the evaluator raises at iteration i, the evaluate step returns:
\* it stores explanation_found = false, confidence 0, quality "poor" and no
\* evidence items, sets the completion flag to i >= max_retries - 1, and the
\* graph goes on to increment or report as that flag says; the run is not
\* aborted.
C33_EvaluatorFailureContained ==
    [][ (NodeRan("evaluate") /\ evaluator_raised') =>
            /\ ~state'.evidence_evaluation.explanation_found
            /\ state'.evidence_evaluation.confidence = 0
            /\ state'.evidence_evaluation.explanation_quality = "poor"
            /\ state'.evidence_evaluation.evidence_items = 0
            /\ state'.investigation_complete = (state.iteration >= max_retries - 1)
            /\ pc' = IF state.iteration >= max_retries - 1 THEN "report" ELSE "increment"
            /\ task'.status = "running"
      ]_vars

\* the evaluator raised in the first of three iterations and the run goes on
C33_Witness ==
    /\ max_retries = 3
    /\ state.iteration = 0
    /\ evaluator_raised
    /\ pc = "increment"
    /\ ~state.investigation_complete

\* C34: a run that is at the report step with iteration < max_retries - 1
\* holds an evaluation with explanation_found = true and confidence >= 0.7;
\* so a run whose final evaluation is unfound or below 0.7 has used all
\* max_retries iterations.
C34_EarlyReportIsAccepted ==
    (task.status = "running" /\ pc \in {"report", "END"}) =>
        /\ state.iteration < max_retries - 1 =>
              /\ state.evidence_evaluation.explanation_found
              /\ state.evidence_evaluation.confidence >= ConfidenceThreshold
        /\ (\/ ~state.evidence_evaluation.explanation_found
            \/ state.evidence_evaluation.confidence < ConfidenceThreshold) =>
              state.iteration + 1 = max_retries

\* a run reports in the first of three iterations
C34_Witness ==
    /\ max_retries = 3
    /\ pc = "report"
    /\ state.iteration = 0
    /\ state.evidence_evaluation.explanation_found
    /\ state.evidence_evaluation.confidence = ConfidenceThreshold

\* the keys of the dict each node returns
WrittenFields(node) ==
    CASE node = "generate_queries" -> {"search_queries"}
      [] node = "search"           -> {"search_results"}
      [] node = "evaluate"         -> {"evidence_evaluation", "investigation_complete"}
      [] node = "increment"        -> {"iteration"}
      [] node = "report"           -> {"final_report"}

\* C35: a node execution leaves every field of the state unchanged but the
\* node's own: search_queries for generate_queries, search_results for
\* search, evidence_evaluation and investigation_complete for evaluate,
\* iteration for increment, final_report for report; the anomaly is never
\* changed.
C35_NodeFrame ==
    [][ \A id \in InvestigationIds :
            (/\ runs[id].status = "running"
             /\ runs[id].pc \in Nodes
             /\ runs'[id].steps = runs[id].steps + 1) =>
                /\ \A field \in DOMAIN runs[id].state \ WrittenFields(runs[id].pc) :
                       runs'[id].state[field] = runs[id].state[field]
                /\ runs'[id].state.anomaly = TickerOf[id]
      ]_vars

\* a run that was retried has reported: all five nodes ran, with evidence
\* found before the increment step
C35_Witness ==
    \E id \in InvestigationIds :
        /\ runs[id].pc = "END"
        /\ runs[id].state.iteration = 1
        /\ runs[id].state.search_results # EmptyResults
        /\ runs[id].state.final_report.kind = "report"
        /\ runs[id].state.anomaly = TickerOf[id]

\* C36: with max_retries <= 12 a run executes at most 4 * max_retries
\* nodes, which is below the recursion limit of 50, so invoke never raises
\* GraphRecursionError and the investigation is never recorded as failed.
C36_CeilingNotReached ==
    max_retries <= 12 =>
        /\ steps <= 4 * max_retries
        /\ 4 * max_retries < RecursionLimit
        /\ pc # "raised"
        /\ Started => Entry.status # "failed"

\* a run of twelve iterations has ended after 48 node executions
C36_Witness ==
    /\ max_retries = 12
    /\ pc = "END"
    /\ steps = 48
    /\ Started
    /\ Entry.status = "completed"

\* the entries of source_tiers without and with a wildcard
ExactEntries == {k \in 1..Len(source_tiers) : ~Contains(source_tiers[k].pattern, <<"*">>)}

WildcardEntries == {k \in 1..Len(source_tiers) : Contains(source_tiers[k].pattern, <<"*">>)}

\* the host is the pattern with at least one more label in front
HasAdditionalLabel(host, pattern) ==
    /\ Len(host) > Len(pattern) + 1
    /\ SubSeq(host, Len(host) - Len(pattern), Len(host)) = <<".">> \o pattern

C38_SameAnomalyLogic ==
    fn.op = "detect" =>
        /\ fn.detailed.anomaly_score = fn.check.anomaly_score
        /\ fn.detailed.is_anomaly <=> fn.check.event

\* the verdict of an investigation in its registry entry
VerdictFields == {"explanation_found", "confidence", "root_cause", "iterations", "report"}

\* C39: an entry is created with status pending; its status only moves
\* pending -> in_progress -> completed or failed, and completed and failed
\* are never left; the verdict fields are in the entry exactly when its
\* status is completed, all of them or none.
C39_StatusAndVerdict ==
    /\ [][ /\ (~Started /\ Started') => Entry'.status = "pending"
           /\ Started =>
                 /\ Started'
                 /\ \/ Entry'.status = Entry.status
                    \/ <<Entry.status, Entry'.status>> \in StatusChanges
                 /\ Entry.status \in {"completed", "failed"} =>
                        Entry'.status = Entry.status
         ]_vars
    /\ [](Started =>
             /\ Entry.status \in {"pending", "in_progress", "completed", "failed"}
             /\ Entry.status = "completed" => VerdictFields \subseteq DOMAIN Entry
             /\ Entry.status # "completed" => VerdictFields \cap DOMAIN Entry = {})

\* a completed entry with its verdict, and no error
C39_Witness ==
    /\ Started
    /\ Entry.status = "completed"
    /\ VerdictFields \subseteq DOMAIN Entry
    /\ Entry.explanation_found
    /\ "error" \notin DOMAIN Entry

\* what a cycle keeps in every state: current_index is at most n, and the
\* tickers checked so far are the first current_index tickers of the
\* watchlist, in its order and each once, whether or not an investigation
\* failed
CycleInOrder ==
    /\ monitor.state.current_index <= Len(monitor.state.watchlist)
    /\ monitor.checked = SubSeq(monitor.state.watchlist, 1, monitor.state.current_index)

\* C40: a monitoring cycle over n tickers checks each ticker exactly once
\* in watchlist order, keeps current_index <= n, and a cycle that is over
\* has ended after the n-th ticker with every ticker checked, failed
\* investigations or not.
C40_EveryTickerChecked ==
    monitor.status # "none" =>
        /\ CycleInOrder
        /\ monitor.status = "done" =>
              (monitor.pc = "END" /\ monitor.checked = monitor.state.watchlist)

=============================================================================
